---- MODULE Spec2Model ----
(***************************************************************************)
(* A model of wxfetch: the token grammars (metar/wxcodes.rs,               *)
(* metar/clouds.rs), the report decoders (metar.rs, taf.rs) and the fetch  *)
(* and print pipeline (api.rs, main.rs).                                   *)
(*                                                                         *)
(* Strings that the program inspects character by character are sequences  *)
(* of one-character strings: "-RA" is <<"-", "R", "A">>.  An Option<T> is  *)
(* a sequence of length at most one: None is <<>> and Some(x) is <<x>>.    *)
(***************************************************************************)
EXTENDS Integers, Sequences, FiniteSets, TLC

VARIABLES
    pc,        \* position of the operation in progress
    repr,      \* the token handed to a token grammar
    field,     \* Option<WxField>: what the grammar returned
    report,    \* Option<Value>: the tree request_wx returned, handed to from_json
    cfg,       \* the Config
    metar,     \* Option<Metar>: what Metar::from_json returned
    taf,       \* Option<Taf>: what Taf::from_json returned
    location,  \* Option<String>: the text of get_location_str
    fetches,   \* the send_api_call calls made so far, with their outcome
    resp,      \* Option<Response>: the response of the last send_api_call
    nearest,   \* Option<String>: what get_nearest_station returned
    stdout,    \* the lines written to standard output
    wx_string, \* Option<ColoredString>: what Metar::colorise returned
    ret,       \* Option of the value an extractor called on its own returned
    utc_now    \* Option of what Utc::now() returned: the seconds since the
               \* epoch and the nanoseconds of the second

vars == <<pc, repr, field, report, cfg, metar, taf, location, fetches, resp, nearest,
          stdout, wx_string, ret, utc_now>>

None == <<>>
Some(x) == <<x>>

Min(S) == CHOOSE x \in S : \A y \in S : x <= y

\* the elements of a sequence
Range(seq) == {seq[k] : k \in 1..Len(seq)}

(***************************************************************************)
(* Characters.                                                             *)
(***************************************************************************)
Upper == <<"A","B","C","D","E","F","G","H","I","J","K","L","M",
           "N","O","P","Q","R","S","T","U","V","W","X","Y","Z">>
Lower == <<"a","b","c","d","e","f","g","h","i","j","k","l","m",
           "n","o","p","q","r","s","t","u","v","w","x","y","z">>

(***************************************************************************)
(* Characters outside ASCII.  A character outside ASCII is written u       *)
(* followed by its code point in hexadecimal, at least four digits: the    *)
(* Kelvin sign U+212A is "u212a".  The grave accent U+0060 is written      *)
(* "u0060" as well.  The tables of core::unicode (Unicode 17.0) and of     *)
(* the regex crate (Unicode 16.0) are kept as ranges of code points in     *)
(* decimal.                                                                *)
(***************************************************************************)
\* char::from_u32 of a code point that is a small ASCII letter or outside ASCII
from_u32(n) ==
    LET Hex == <<"0", "1", "2", "3", "4", "5", "6", "7", "8", "9", "a", "b", "c", "d", "e", "f">>
        RECURSIVE Digits(_, _)
        \* m in hexadecimal, `width` digits at least
        Digits(m, width) ==
            IF m = 0 /\ width <= 0 THEN "" ELSE Digits(m \div 16, width - 1) \o Hex[(m % 16) + 1]
    IN  IF n \in 97..122 THEN Lower[n - 96] ELSE "u" \o Digits(n, 4)

\* char::to_lowercase: the characters c lowers to.  An ASCII character (one
\* written as itself) is lowered by to_ascii_lowercase, any other character
\* by the table of conversions::to_lower.
ToLowerChar(c) ==
    LET is_ascii == Len(c) = 1
        \* the lower case of c by runs <<first, last, step, delta>>: every
        \* step-th code point from first to last lowers to the one delta above
        \* (U+0130, which lowers to two characters, is apart)
        to_lower(runs) ==
            UNION {{from_u32(n + run[4]) :
                       n \in {m \in run[1]..run[2] :
                                 (m - run[1]) % run[3] = 0 /\ from_u32(m) = c}} : run \in runs}
        unwrap_or_self(lowered) ==
            IF lowered = {} THEN <<c>> ELSE <<CHOOSE l \in lowered : TRUE>>
    IN  IF \E i \in 1..26 : Upper[i] = c
        THEN <<Lower[CHOOSE i \in 1..26 : Upper[i] = c]>>
        ELSE IF is_ascii THEN <<c>>
        ELSE IF c = "u0130" THEN <<"i", "u0307">>
        ELSE unwrap_or_self(to_lower({
            <<192, 214, 1, 32>>, <<216, 222, 1, 32>>, <<256, 302, 2, 1>>, <<306, 310, 2, 1>>,
            <<313, 327, 2, 1>>, <<330, 374, 2, 1>>, <<376, 376, 1, -121>>, <<377, 381, 2, 1>>,
            <<385, 385, 1, 210>>, <<386, 388, 2, 1>>, <<390, 390, 1, 206>>, <<391, 391, 1, 1>>,
            <<393, 394, 1, 205>>, <<395, 395, 1, 1>>, <<398, 398, 1, 79>>, <<399, 399, 1, 202>>,
            <<400, 400, 1, 203>>, <<401, 401, 1, 1>>, <<403, 403, 1, 205>>, <<404, 404, 1,
            207>>, <<406, 406, 1, 211>>, <<407, 407, 1, 209>>, <<408, 408, 1, 1>>, <<412, 412,
            1, 211>>, <<413, 413, 1, 213>>, <<415, 415, 1, 214>>, <<416, 420, 2, 1>>, <<422,
            422, 1, 218>>, <<423, 423, 1, 1>>, <<425, 425, 1, 218>>, <<428, 428, 1, 1>>, <<430,
            430, 1, 218>>, <<431, 431, 1, 1>>, <<433, 434, 1, 217>>, <<435, 437, 2, 1>>, <<439,
            439, 1, 219>>, <<440, 440, 1, 1>>, <<444, 444, 1, 1>>, <<452, 452, 1, 2>>, <<453,
            453, 1, 1>>, <<455, 455, 1, 2>>, <<456, 456, 1, 1>>, <<458, 458, 1, 2>>, <<459, 475,
            2, 1>>, <<478, 494, 2, 1>>, <<497, 497, 1, 2>>, <<498, 500, 2, 1>>, <<502, 502, 1,
            -97>>, <<503, 503, 1, -56>>, <<504, 542, 2, 1>>, <<544, 544, 1, -130>>, <<546, 562,
            2, 1>>, <<570, 570, 1, 10795>>, <<571, 571, 1, 1>>, <<573, 573, 1, -163>>, <<574,
            574, 1, 10792>>, <<577, 577, 1, 1>>, <<579, 579, 1, -195>>, <<580, 580, 1, 69>>,
            <<581, 581, 1, 71>>, <<582, 590, 2, 1>>, <<880, 882, 2, 1>>, <<886, 886, 1, 1>>,
            <<895, 895, 1, 116>>, <<902, 902, 1, 38>>, <<904, 906, 1, 37>>, <<908, 908, 1, 64>>,
            <<910, 911, 1, 63>>, <<913, 929, 1, 32>>, <<931, 939, 1, 32>>, <<975, 975, 1, 8>>,
            <<984, 1006, 2, 1>>, <<1012, 1012, 1, -60>>, <<1015, 1015, 1, 1>>, <<1017, 1017, 1,
            -7>>, <<1018, 1018, 1, 1>>, <<1021, 1023, 1, -130>>, <<1024, 1039, 1, 80>>, <<1040,
            1071, 1, 32>>, <<1120, 1152, 2, 1>>, <<1162, 1214, 2, 1>>, <<1216, 1216, 1, 15>>,
            <<1217, 1229, 2, 1>>, <<1232, 1326, 2, 1>>, <<1329, 1366, 1, 48>>, <<4256, 4293, 1,
            7264>>, <<4295, 4295, 1, 7264>>, <<4301, 4301, 1, 7264>>, <<5024, 5103, 1, 38864>>,
            <<5104, 5109, 1, 8>>, <<7305, 7305, 1, 1>>, <<7312, 7354, 1, -3008>>, <<7357, 7359,
            1, -3008>>, <<7680, 7828, 2, 1>>, <<7838, 7838, 1, -7615>>, <<7840, 7934, 2, 1>>,
            <<7944, 7951, 1, -8>>, <<7960, 7965, 1, -8>>, <<7976, 7983, 1, -8>>, <<7992, 7999,
            1, -8>>, <<8008, 8013, 1, -8>>, <<8025, 8031, 2, -8>>, <<8040, 8047, 1, -8>>,
            <<8072, 8079, 1, -8>>, <<8088, 8095, 1, -8>>, <<8104, 8111, 1, -8>>, <<8120, 8121,
            1, -8>>, <<8122, 8123, 1, -74>>, <<8124, 8124, 1, -9>>, <<8136, 8139, 1, -86>>,
            <<8140, 8140, 1, -9>>, <<8152, 8153, 1, -8>>, <<8154, 8155, 1, -100>>, <<8168, 8169,
            1, -8>>, <<8170, 8171, 1, -112>>, <<8172, 8172, 1, -7>>, <<8184, 8185, 1, -128>>,
            <<8186, 8187, 1, -126>>, <<8188, 8188, 1, -9>>, <<8486, 8486, 1, -7517>>, <<8490,
            8490, 1, -8383>>, <<8491, 8491, 1, -8262>>, <<8498, 8498, 1, 28>>, <<8544, 8559, 1,
            16>>, <<8579, 8579, 1, 1>>, <<9398, 9423, 1, 26>>, <<11264, 11311, 1, 48>>, <<11360,
            11360, 1, 1>>, <<11362, 11362, 1, -10743>>, <<11363, 11363, 1, -3814>>, <<11364,
            11364, 1, -10727>>, <<11367, 11371, 2, 1>>, <<11373, 11373, 1, -10780>>, <<11374,
            11374, 1, -10749>>, <<11375, 11375, 1, -10783>>, <<11376, 11376, 1, -10782>>,
            <<11378, 11378, 1, 1>>, <<11381, 11381, 1, 1>>, <<11390, 11391, 1, -10815>>,
            <<11392, 11490, 2, 1>>, <<11499, 11501, 2, 1>>, <<11506, 11506, 1, 1>>, <<42560,
            42604, 2, 1>>, <<42624, 42650, 2, 1>>, <<42786, 42798, 2, 1>>, <<42802, 42862, 2,
            1>>, <<42873, 42875, 2, 1>>, <<42877, 42877, 1, -35332>>, <<42878, 42886, 2, 1>>,
            <<42891, 42891, 1, 1>>, <<42893, 42893, 1, -42280>>, <<42896, 42898, 2, 1>>,
            <<42902, 42920, 2, 1>>, <<42922, 42922, 1, -42308>>, <<42923, 42923, 1, -42319>>,
            <<42924, 42924, 1, -42315>>, <<42925, 42925, 1, -42305>>, <<42926, 42926, 1,
            -42308>>, <<42928, 42928, 1, -42258>>, <<42929, 42929, 1, -42282>>, <<42930, 42930,
            1, -42261>>, <<42931, 42931, 1, 928>>, <<42932, 42946, 2, 1>>, <<42948, 42948, 1,
            -48>>, <<42949, 42949, 1, -42307>>, <<42950, 42950, 1, -35384>>, <<42951, 42953, 2,
            1>>, <<42955, 42955, 1, -42343>>, <<42956, 42970, 2, 1>>, <<42972, 42972, 1,
            -42561>>, <<42997, 42997, 1, 1>>, <<65313, 65338, 1, 32>>, <<66560, 66599, 1, 40>>,
            <<66736, 66771, 1, 40>>, <<66928, 66938, 1, 39>>, <<66940, 66954, 1, 39>>, <<66956,
            66962, 1, 39>>, <<66964, 66965, 1, 39>>, <<68736, 68786, 1, 64>>, <<68944, 68965, 1,
            32>>, <<71840, 71871, 1, 32>>, <<93760, 93791, 1, 32>>, <<93856, 93880, 1, 27>>,
            <<125184, 125217, 1, 34>>}))

\* str::to_lowercase: every character lowered, except that a capital sigma
\* becomes the final sigma when a cased character precedes it and none follows,
\* the Case_Ignorable characters in between skipped (map_uppercase_sigma).
\* The derived properties Cased and Case_Ignorable are ranges <<first, last>>.
ToLowercase(s) ==
    LET InRanges(c, ranges) == \E range \in ranges : \E n \in range[1]..range[2] : from_u32(n) = c
        lowercase(cased, case_ignorable) ==
            LET RECURSIVE case_ignorable_then_cased(_, _)
                \* from position i in direction step
                case_ignorable_then_cased(i, step) ==
                    IF i < 1 \/ i > Len(s) THEN FALSE
                    ELSE IF \/ s[i] \in {"'", ".", ":", "^", "u0060"}
                            \/ InRanges(s[i], case_ignorable)
                         THEN case_ignorable_then_cased(i + step, step)
                         ELSE \/ s[i] \in Range(Upper) \cup Range(Lower)
                              \/ InRanges(s[i], cased)
                is_word_final(i) ==
                    case_ignorable_then_cased(i - 1, -1) /\ ~case_ignorable_then_cased(i + 1, 1)
                Lowered(i) ==
                    IF s[i] = "u03a3"
                    THEN (IF is_word_final(i) THEN <<"u03c2">> ELSE <<"u03c3">>)
                    ELSE ToLowerChar(s[i])
                RECURSIVE Pushed(_)
                Pushed(i) == IF i = 0 THEN <<>> ELSE Pushed(i - 1) \o Lowered(i)
            IN  Pushed(Len(s))
    IN  lowercase({
            <<170, 170>>, <<181, 181>>, <<186, 186>>, <<192, 214>>, <<216, 246>>, <<248, 442>>,
            <<444, 447>>, <<452, 659>>, <<662, 696>>, <<704, 705>>, <<736, 740>>, <<837, 837>>,
            <<880, 883>>, <<886, 887>>, <<890, 893>>, <<895, 895>>, <<902, 902>>, <<904, 906>>,
            <<908, 908>>, <<910, 929>>, <<931, 1013>>, <<1015, 1153>>, <<1162, 1327>>, <<1329,
            1366>>, <<1376, 1416>>, <<4256, 4293>>, <<4295, 4295>>, <<4301, 4301>>, <<4304,
            4346>>, <<4348, 4351>>, <<5024, 5109>>, <<5112, 5117>>, <<7296, 7306>>, <<7312,
            7354>>, <<7357, 7359>>, <<7424, 7615>>, <<7680, 7957>>, <<7960, 7965>>, <<7968,
            8005>>, <<8008, 8013>>, <<8016, 8023>>, <<8025, 8025>>, <<8027, 8027>>, <<8029,
            8029>>, <<8031, 8061>>, <<8064, 8116>>, <<8118, 8124>>, <<8126, 8126>>, <<8130,
            8132>>, <<8134, 8140>>, <<8144, 8147>>, <<8150, 8155>>, <<8160, 8172>>, <<8178,
            8180>>, <<8182, 8188>>, <<8305, 8305>>, <<8319, 8319>>, <<8336, 8348>>, <<8450,
            8450>>, <<8455, 8455>>, <<8458, 8467>>, <<8469, 8469>>, <<8473, 8477>>, <<8484,
            8484>>, <<8486, 8486>>, <<8488, 8488>>, <<8490, 8493>>, <<8495, 8500>>, <<8505,
            8505>>, <<8508, 8511>>, <<8517, 8521>>, <<8526, 8526>>, <<8544, 8575>>, <<8579,
            8580>>, <<9398, 9449>>, <<11264, 11492>>, <<11499, 11502>>, <<11506, 11507>>,
            <<11520, 11557>>, <<11559, 11559>>, <<11565, 11565>>, <<42560, 42605>>, <<42624,
            42653>>, <<42786, 42887>>, <<42891, 42894>>, <<42896, 42972>>, <<42993, 42998>>,
            <<43000, 43002>>, <<43824, 43866>>, <<43868, 43881>>, <<43888, 43967>>, <<64256,
            64262>>, <<64275, 64279>>, <<65313, 65338>>, <<65345, 65370>>, <<66560, 66639>>,
            <<66736, 66771>>, <<66776, 66811>>, <<66928, 66938>>, <<66940, 66954>>, <<66956,
            66962>>, <<66964, 66965>>, <<66967, 66977>>, <<66979, 66993>>, <<66995, 67001>>,
            <<67003, 67004>>, <<67456, 67456>>, <<67459, 67461>>, <<67463, 67504>>, <<67506,
            67514>>, <<68736, 68786>>, <<68800, 68850>>, <<68944, 68965>>, <<68976, 68997>>,
            <<71840, 71903>>, <<93760, 93823>>, <<93856, 93880>>, <<93883, 93907>>, <<119808,
            119892>>, <<119894, 119964>>, <<119966, 119967>>, <<119970, 119970>>, <<119973,
            119974>>, <<119977, 119980>>, <<119982, 119993>>, <<119995, 119995>>, <<119997,
            120003>>, <<120005, 120069>>, <<120071, 120074>>, <<120077, 120084>>, <<120086,
            120092>>, <<120094, 120121>>, <<120123, 120126>>, <<120128, 120132>>, <<120134,
            120134>>, <<120138, 120144>>, <<120146, 120485>>, <<120488, 120512>>, <<120514,
            120538>>, <<120540, 120570>>, <<120572, 120596>>, <<120598, 120628>>, <<120630,
            120654>>, <<120656, 120686>>, <<120688, 120712>>, <<120714, 120744>>, <<120746,
            120770>>, <<120772, 120779>>, <<122624, 122633>>, <<122635, 122654>>, <<122661,
            122666>>, <<122928, 122989>>, <<125184, 125251>>, <<127280, 127305>>, <<127312,
            127337>>, <<127344, 127369>>}, {
            <<168, 168>>, <<173, 173>>, <<175, 175>>, <<180, 180>>, <<183, 184>>, <<688, 879>>,
            <<884, 885>>, <<890, 890>>, <<900, 901>>, <<903, 903>>, <<1155, 1161>>, <<1369,
            1369>>, <<1375, 1375>>, <<1425, 1469>>, <<1471, 1471>>, <<1473, 1474>>, <<1476,
            1477>>, <<1479, 1479>>, <<1524, 1524>>, <<1536, 1541>>, <<1552, 1562>>, <<1564,
            1564>>, <<1600, 1600>>, <<1611, 1631>>, <<1648, 1648>>, <<1750, 1757>>, <<1759,
            1768>>, <<1770, 1773>>, <<1807, 1807>>, <<1809, 1809>>, <<1840, 1866>>, <<1958,
            1968>>, <<2027, 2037>>, <<2042, 2042>>, <<2045, 2045>>, <<2070, 2093>>, <<2137,
            2139>>, <<2184, 2184>>, <<2192, 2193>>, <<2199, 2207>>, <<2249, 2306>>, <<2362,
            2362>>, <<2364, 2364>>, <<2369, 2376>>, <<2381, 2381>>, <<2385, 2391>>, <<2402,
            2403>>, <<2417, 2417>>, <<2433, 2433>>, <<2492, 2492>>, <<2497, 2500>>, <<2509,
            2509>>, <<2530, 2531>>, <<2558, 2558>>, <<2561, 2562>>, <<2620, 2620>>, <<2625,
            2626>>, <<2631, 2632>>, <<2635, 2637>>, <<2641, 2641>>, <<2672, 2673>>, <<2677,
            2677>>, <<2689, 2690>>, <<2748, 2748>>, <<2753, 2757>>, <<2759, 2760>>, <<2765,
            2765>>, <<2786, 2787>>, <<2810, 2815>>, <<2817, 2817>>, <<2876, 2876>>, <<2879,
            2879>>, <<2881, 2884>>, <<2893, 2893>>, <<2901, 2902>>, <<2914, 2915>>, <<2946,
            2946>>, <<3008, 3008>>, <<3021, 3021>>, <<3072, 3072>>, <<3076, 3076>>, <<3132,
            3132>>, <<3134, 3136>>, <<3142, 3144>>, <<3146, 3149>>, <<3157, 3158>>, <<3170,
            3171>>, <<3201, 3201>>, <<3260, 3260>>, <<3263, 3263>>, <<3270, 3270>>, <<3276,
            3277>>, <<3298, 3299>>, <<3328, 3329>>, <<3387, 3388>>, <<3393, 3396>>, <<3405,
            3405>>, <<3426, 3427>>, <<3457, 3457>>, <<3530, 3530>>, <<3538, 3540>>, <<3542,
            3542>>, <<3633, 3633>>, <<3636, 3642>>, <<3654, 3662>>, <<3761, 3761>>, <<3764,
            3772>>, <<3782, 3782>>, <<3784, 3790>>, <<3864, 3865>>, <<3893, 3893>>, <<3895,
            3895>>, <<3897, 3897>>, <<3953, 3966>>, <<3968, 3972>>, <<3974, 3975>>, <<3981,
            3991>>, <<3993, 4028>>, <<4038, 4038>>, <<4141, 4144>>, <<4146, 4151>>, <<4153,
            4154>>, <<4157, 4158>>, <<4184, 4185>>, <<4190, 4192>>, <<4209, 4212>>, <<4226,
            4226>>, <<4229, 4230>>, <<4237, 4237>>, <<4253, 4253>>, <<4348, 4348>>, <<4957,
            4959>>, <<5906, 5908>>, <<5938, 5939>>, <<5970, 5971>>, <<6002, 6003>>, <<6068,
            6069>>, <<6071, 6077>>, <<6086, 6086>>, <<6089, 6099>>, <<6103, 6103>>, <<6109,
            6109>>, <<6155, 6159>>, <<6211, 6211>>, <<6277, 6278>>, <<6313, 6313>>, <<6432,
            6434>>, <<6439, 6440>>, <<6450, 6450>>, <<6457, 6459>>, <<6679, 6680>>, <<6683,
            6683>>, <<6742, 6742>>, <<6744, 6750>>, <<6752, 6752>>, <<6754, 6754>>, <<6757,
            6764>>, <<6771, 6780>>, <<6783, 6783>>, <<6823, 6823>>, <<6832, 6877>>, <<6880,
            6891>>, <<6912, 6915>>, <<6964, 6964>>, <<6966, 6970>>, <<6972, 6972>>, <<6978,
            6978>>, <<7019, 7027>>, <<7040, 7041>>, <<7074, 7077>>, <<7080, 7081>>, <<7083,
            7085>>, <<7142, 7142>>, <<7144, 7145>>, <<7149, 7149>>, <<7151, 7153>>, <<7212,
            7219>>, <<7222, 7223>>, <<7288, 7293>>, <<7376, 7378>>, <<7380, 7392>>, <<7394,
            7400>>, <<7405, 7405>>, <<7412, 7412>>, <<7416, 7417>>, <<7468, 7530>>, <<7544,
            7544>>, <<7579, 7679>>, <<8125, 8125>>, <<8127, 8129>>, <<8141, 8143>>, <<8157,
            8159>>, <<8173, 8175>>, <<8189, 8190>>, <<8203, 8207>>, <<8216, 8217>>, <<8228,
            8228>>, <<8231, 8231>>, <<8234, 8238>>, <<8288, 8292>>, <<8294, 8303>>, <<8305,
            8305>>, <<8319, 8319>>, <<8336, 8348>>, <<8400, 8432>>, <<11388, 11389>>, <<11503,
            11505>>, <<11631, 11631>>, <<11647, 11647>>, <<11744, 11775>>, <<11823, 11823>>,
            <<12293, 12293>>, <<12330, 12333>>, <<12337, 12341>>, <<12347, 12347>>, <<12441,
            12446>>, <<12540, 12542>>, <<40981, 40981>>, <<42232, 42237>>, <<42508, 42508>>,
            <<42607, 42610>>, <<42612, 42621>>, <<42623, 42623>>, <<42652, 42655>>, <<42736,
            42737>>, <<42752, 42785>>, <<42864, 42864>>, <<42888, 42890>>, <<42993, 42996>>,
            <<43000, 43001>>, <<43010, 43010>>, <<43014, 43014>>, <<43019, 43019>>, <<43045,
            43046>>, <<43052, 43052>>, <<43204, 43205>>, <<43232, 43249>>, <<43263, 43263>>,
            <<43302, 43309>>, <<43335, 43345>>, <<43392, 43394>>, <<43443, 43443>>, <<43446,
            43449>>, <<43452, 43453>>, <<43471, 43471>>, <<43493, 43494>>, <<43561, 43566>>,
            <<43569, 43570>>, <<43573, 43574>>, <<43587, 43587>>, <<43596, 43596>>, <<43632,
            43632>>, <<43644, 43644>>, <<43696, 43696>>, <<43698, 43700>>, <<43703, 43704>>,
            <<43710, 43711>>, <<43713, 43713>>, <<43741, 43741>>, <<43756, 43757>>, <<43763,
            43764>>, <<43766, 43766>>, <<43867, 43871>>, <<43881, 43883>>, <<44005, 44005>>,
            <<44008, 44008>>, <<44013, 44013>>, <<64286, 64286>>, <<64434, 64450>>, <<65024,
            65039>>, <<65043, 65043>>, <<65056, 65071>>, <<65106, 65106>>, <<65109, 65109>>,
            <<65279, 65279>>, <<65287, 65287>>, <<65294, 65294>>, <<65306, 65306>>, <<65342,
            65342>>, <<65344, 65344>>, <<65392, 65392>>, <<65438, 65439>>, <<65507, 65507>>,
            <<65529, 65531>>, <<66045, 66045>>, <<66272, 66272>>, <<66422, 66426>>, <<67456,
            67461>>, <<67463, 67504>>, <<67506, 67514>>, <<68097, 68099>>, <<68101, 68102>>,
            <<68108, 68111>>, <<68152, 68154>>, <<68159, 68159>>, <<68325, 68326>>, <<68900,
            68903>>, <<68942, 68942>>, <<68969, 68973>>, <<68975, 68975>>, <<69291, 69292>>,
            <<69317, 69317>>, <<69370, 69375>>, <<69446, 69456>>, <<69506, 69509>>, <<69633,
            69633>>, <<69688, 69702>>, <<69744, 69744>>, <<69747, 69748>>, <<69759, 69761>>,
            <<69811, 69814>>, <<69817, 69818>>, <<69821, 69821>>, <<69826, 69826>>, <<69837,
            69837>>, <<69888, 69890>>, <<69927, 69931>>, <<69933, 69940>>, <<70003, 70003>>,
            <<70016, 70017>>, <<70070, 70078>>, <<70089, 70092>>, <<70095, 70095>>, <<70191,
            70193>>, <<70196, 70196>>, <<70198, 70199>>, <<70206, 70206>>, <<70209, 70209>>,
            <<70367, 70367>>, <<70371, 70378>>, <<70400, 70401>>, <<70459, 70460>>, <<70464,
            70464>>, <<70502, 70508>>, <<70512, 70516>>, <<70587, 70592>>, <<70606, 70606>>,
            <<70608, 70608>>, <<70610, 70610>>, <<70625, 70626>>, <<70712, 70719>>, <<70722,
            70724>>, <<70726, 70726>>, <<70750, 70750>>, <<70835, 70840>>, <<70842, 70842>>,
            <<70847, 70848>>, <<70850, 70851>>, <<71090, 71093>>, <<71100, 71101>>, <<71103,
            71104>>, <<71132, 71133>>, <<71219, 71226>>, <<71229, 71229>>, <<71231, 71232>>,
            <<71339, 71339>>, <<71341, 71341>>, <<71344, 71349>>, <<71351, 71351>>, <<71453,
            71453>>, <<71455, 71455>>, <<71458, 71461>>, <<71463, 71467>>, <<71727, 71735>>,
            <<71737, 71738>>, <<71995, 71996>>, <<71998, 71998>>, <<72003, 72003>>, <<72148,
            72151>>, <<72154, 72155>>, <<72160, 72160>>, <<72193, 72202>>, <<72243, 72248>>,
            <<72251, 72254>>, <<72263, 72263>>, <<72273, 72278>>, <<72281, 72283>>, <<72330,
            72342>>, <<72344, 72345>>, <<72544, 72544>>, <<72546, 72548>>, <<72550, 72550>>,
            <<72752, 72758>>, <<72760, 72765>>, <<72767, 72767>>, <<72850, 72871>>, <<72874,
            72880>>, <<72882, 72883>>, <<72885, 72886>>, <<73009, 73014>>, <<73018, 73018>>,
            <<73020, 73021>>, <<73023, 73029>>, <<73031, 73031>>, <<73104, 73105>>, <<73109,
            73109>>, <<73111, 73111>>, <<73177, 73177>>, <<73459, 73460>>, <<73472, 73473>>,
            <<73526, 73530>>, <<73536, 73536>>, <<73538, 73538>>, <<73562, 73562>>, <<78896,
            78912>>, <<78919, 78933>>, <<90398, 90409>>, <<90413, 90415>>, <<92912, 92916>>,
            <<92976, 92982>>, <<92992, 92995>>, <<93504, 93506>>, <<93547, 93548>>, <<94031,
            94031>>, <<94095, 94111>>, <<94176, 94177>>, <<94179, 94180>>, <<94194, 94195>>,
            <<110576, 110579>>, <<110581, 110587>>, <<110589, 110590>>, <<113821, 113822>>,
            <<113824, 113827>>, <<118528, 118573>>, <<118576, 118598>>, <<119143, 119145>>,
            <<119155, 119170>>, <<119173, 119179>>, <<119210, 119213>>, <<119362, 119364>>,
            <<121344, 121398>>, <<121403, 121452>>, <<121461, 121461>>, <<121476, 121476>>,
            <<121499, 121503>>, <<121505, 121519>>, <<122880, 122886>>, <<122888, 122904>>,
            <<122907, 122913>>, <<122915, 122916>>, <<122918, 122922>>, <<122928, 122989>>,
            <<123023, 123023>>, <<123184, 123197>>, <<123566, 123566>>, <<123628, 123631>>,
            <<124139, 124143>>, <<124398, 124399>>, <<124643, 124643>>, <<124646, 124646>>,
            <<124654, 124655>>, <<124661, 124661>>, <<124671, 124671>>, <<125136, 125142>>,
            <<125252, 125259>>, <<127995, 127999>>, <<917505, 917505>>, <<917536, 917631>>,
            <<917760, 917999>>})

AsciiDigits == <<"0","1","2","3","4","5","6","7","8","9">>

IsAsciiDigit(c) == \E i \in 1..10 : AsciiDigits[i] = c

\* the regex class \d is Unicode-aware in the regex crate: every character
\* that its tables (Unicode 16.0) give the General_Category Nd, which are the
\* ASCII digits and, outside ASCII, the ten digits that follow each of these
\* digits zero.  The digits Unicode 17.0 added (U+11DE0 to U+11DE9) are not
\* among them.
IsRegexDigit(c) ==
    LET is_ascii == Len(c) = 1
        zeros == {
            1632, 1776, 1984, 2406, 2534, 2662, 2790, 2918, 3046, 3174, 3302, 3430, 3558, 3664,
            3792, 3872, 4160, 4240, 6112, 6160, 6470, 6608, 6784, 6800, 6992, 7088, 7232, 7248,
            42528, 43216, 43264, 43472, 43504, 43600, 44016, 65296, 66720, 68912, 68928, 69734,
            69872, 69942, 70096, 70384, 70736, 70864, 71248, 71360, 71376, 71386, 71472, 71904,
            72016, 72688, 72784, 73040, 73120, 73552, 90416, 92768, 92864, 93008, 93552,
            118000, 120782, 120792, 120802, 120812, 120822, 123200, 123632, 124144, 124401,
            125264, 130032}
    IN  IsAsciiDigit(c) \/ (~is_ascii /\ \E zero \in zeros, d \in 0..9 : from_u32(zero + d) = c)

DigitValue(c) == (CHOOSE i \in 1..10 : AsciiDigits[i] = c) - 1

(***************************************************************************)
(* metar/wxcodes.rs: the closed enumerations, their Display and FromStr.    *)
(* A match table is a sequence of arms <<pattern, variant>> in source order.*)
(***************************************************************************)
\* WxCode::iter(): the variants in declaration order
WxCodeIter ==
    <<"Ra", "Dz", "Gr", "Gs", "Ic", "Pl", "Sg", "Sn", "Up", "Br", "Du",
      "Fg", "Fu", "Hz", "Py", "Sa", "Va", "Ds", "Fc", "Po", "Sq", "Ss">>

\* WxCodeIntensity has no EnumIter; its variants in declaration order
WxCodeIntensityVariants == <<"Moderate", "Light", "Heavy">>

\* WxCodeProximity::iter()
WxCodeProximityIter == <<"OnStation", "Vicinity", "Distant">>

\* WxCodeDescription::iter()
WxCodeDescriptionIter == <<"None", "Ts", "Bc", "Bl", "Dr", "Fz", "Mi", "Pr", "Sh">>

\* the match arms of the Display and FromStr impls of metar/wxcodes.rs:
\* Display arms are <<variant, text>>, FromStr arms <<lowered text, variant>>
WxArms ==
    [ \* impl Display for WxCode
     code_display |-> <<<<"Ra", <<"R", "A">>>>,
                       <<"Dz", <<"D", "Z">>>>,
                       <<"Gr", <<"G", "R">>>>,
                       <<"Gs", <<"G", "S">>>>,
                       <<"Ic", <<"I", "C">>>>,
                       <<"Pl", <<"P", "L">>>>,
                       <<"Sg", <<"S", "G">>>>,
                       <<"Sn", <<"S", "N">>>>,
                       <<"Up", <<"U", "P">>>>,
                       <<"Br", <<"B", "R">>>>,
                       <<"Du", <<"D", "U">>>>,
                       <<"Fg", <<"F", "G">>>>,
                       <<"Fu", <<"F", "U">>>>,
                       <<"Hz", <<"H", "Z">>>>,
                       <<"Py", <<"P", "Y">>>>,
                       <<"Sa", <<"S", "A">>>>,
                       <<"Va", <<"V", "A">>>>,
                       <<"Ds", <<"D", "S">>>>,
                       <<"Fc", <<"F", "C">>>>,
                       <<"Po", <<"P", "O">>>>,
                       <<"Sq", <<"S", "Q">>>>,
                       <<"Ss", <<"S", "S">>>>>>,
     \* impl FromStr for WxCode
     code_from_str |-> <<<<<<"r", "a">>, "Ra">>,
                        <<<<"d", "z">>, "Dz">>,
                        <<<<"g", "r">>, "Gr">>,
                        <<<<"g", "s">>, "Gs">>,
                        <<<<"i", "c">>, "Ic">>,
                        <<<<"p", "l">>, "Pl">>,
                        <<<<"s", "g">>, "Sg">>,
                        <<<<"s", "n">>, "Sn">>,
                        <<<<"u", "p">>, "Up">>,
                        <<<<"b", "r">>, "Br">>,
                        <<<<"d", "u">>, "Du">>,
                        <<<<"f", "g">>, "Fg">>,
                        <<<<"f", "u">>, "Fu">>,
                        <<<<"h", "z">>, "Hz">>,
                        <<<<"p", "y">>, "Py">>,
                        <<<<"s", "a">>, "Sa">>,
                        <<<<"v", "a">>, "Va">>,
                        <<<<"d", "s">>, "Ds">>,
                        <<<<"f", "c">>, "Fc">>,
                        <<<<"p", "o">>, "Po">>,
                        <<<<"s", "q">>, "Sq">>,
                        <<<<"s", "s">>, "Ss">>>>,
     \* impl Display for WxCodeIntensity
     intensity_display |-> <<<<"Moderate", <<>>>>,
                            <<"Light", <<"-">>>>,
                            <<"Heavy", <<"+">>>>>>,
     \* impl FromStr for WxCodeIntensity
     intensity_from_str |-> <<<<<<>>, "Moderate">>,
                             <<<<"+">>, "Heavy">>,
                             <<<<"-">>, "Light">>>>,
     \* impl Display for WxCodeProximity
     proximity_display |-> <<<<"OnStation", <<>>>>,
                            <<"Vicinity", <<"V", "C">>>>,
                            <<"Distant", <<"D", "S", "N", "T">>>>>>,
     \* impl FromStr for WxCodeProximity
     proximity_from_str |-> <<<<<<>>, "OnStation">>,
                             <<<<"v", "c">>, "Vicinity">>,
                             <<<<"d", "s", "n", "t">>, "Distant">>>>,
     \* impl Display for WxCodeDescription
     description_display |-> <<<<"None", <<>>>>,
                              <<"Ts", <<"T", "S">>>>,
                              <<"Bc", <<"B", "C">>>>,
                              <<"Bl", <<"B", "L">>>>,
                              <<"Dr", <<"D", "R">>>>,
                              <<"Fz", <<"F", "Z">>>>,
                              <<"Mi", <<"M", "I">>>>,
                              <<"Pr", <<"P", "R">>>>,
                              <<"Sh", <<"S", "H">>>>>>,
     \* impl FromStr for WxCodeDescription
     description_from_str |-> <<<<<<>>, "None">>,
                               <<<<"t", "s">>, "Ts">>,
                               <<<<"b", "c">>, "Bc">>,
                               <<<<"b", "l">>, "Bl">>,
                               <<<<"d", "r">>, "Dr">>,
                               <<<<"f", "z">>, "Fz">>,
                               <<<<"m", "i">>, "Mi">>,
                               <<<<"p", "r">>, "Pr">>,
                               <<<<"s", "h">>, "Sh">>>>]

\* the arm of a Display match for variant v
DisplayOf(arms, v) == arms[CHOOSE k \in 1..Len(arms) : arms[k][1] = v][2]

\* `match s.to_lowercase().as_str() { pattern => Ok(variant), ..., _ => Err }`
\* followed by .ok(): the first arm whose pattern equals the lowered string
\* the match on the string as given, without to_lowercase()
FromStrOf_CaseSensitive(arms, s) ==
    LET K == {k \in 1..Len(arms) : arms[k][1] = s}
    IN  IF K = {} THEN None ELSE Some(arms[Min(K)][2])

FromStrOf(arms, s) ==
    LET first_arm(K) == IF K = {} THEN None ELSE Some(arms[Min(K)][2])
        matching(l) == first_arm({k \in 1..Len(arms) : arms[k][1] = l})
    IN  matching(ToLowercase(s))

WxCodeDisplay(v) == DisplayOf(WxArms.code_display, v)
WxCodeFromStr(s) == FromStrOf(WxArms.code_from_str, s)
WxCodeIntensityDisplay(v) == DisplayOf(WxArms.intensity_display, v)
WxCodeIntensityFromStr(s) == FromStrOf(WxArms.intensity_from_str, s)
WxCodeProximityDisplay(v) == DisplayOf(WxArms.proximity_display, v)
WxCodeProximityFromStr(s) == FromStrOf(WxArms.proximity_from_str, s)
WxCodeDescriptionDisplay(v) == DisplayOf(WxArms.description_display, v)
WxCodeDescriptionFromStr(s) == FromStrOf(WxArms.description_from_str, s)

(***************************************************************************)
(* get_regex: the alternation text pushed together from the Display of     *)
(* every variant.                                                          *)
(***************************************************************************)
\* `if res.ends_with('|') { res.truncate(res.len() - 1) }`
TruncateBar(res) ==
    IF Len(res) > 0 /\ res[Len(res)] = "|" THEN SubSeq(res, 1, Len(res) - 1) ELSE res

\* `for val in Self::iter() { res.push_str(val.to_string()); res.push('|') }`;
\* with barIfEmpty = FALSE the bar is pushed only after a non-empty string
RECURSIVE PushVariants(_, _, _, _, _)
PushVariants(iter, arms, barIfEmpty, i, res) ==
    IF i > Len(iter) THEN res
    ELSE LET str == DisplayOf(arms, iter[i])
             bar == IF barIfEmpty \/ Len(str) > 0 THEN <<"|">> ELSE <<>>
         IN  PushVariants(iter, arms, barIfEmpty, i + 1, res \o str \o bar)

WxCodeGetRegex ==
    TruncateBar(PushVariants(WxCodeIter, WxArms.code_display, TRUE, 1, <<>>))

WxCodeProximityGetRegex ==
    TruncateBar(PushVariants(WxCodeProximityIter, WxArms.proximity_display, TRUE, 1, <<>>))

WxCodeDescriptionGetRegex ==
    TruncateBar(PushVariants(WxCodeDescriptionIter, WxArms.description_display,
                             FALSE, 1, <<>>))

\* String::from(r"[+]|-")
WxCodeIntensityGetRegex == <<"[", "+", "]", "|", "-">>

(***************************************************************************)
(* The regex crate, for the patterns this program builds: a concatenation  *)
(* of groups, each an alternation of literals or a run of digits, searched  *)
(* for unanchored with leftmost-first preference.                          *)
(***************************************************************************)
\* the alternatives of an alternation text, split at every '|'
RECURSIVE SplitAlternation(_, _, _, _)
SplitAlternation(text, i, cur, acc) ==
    IF i > Len(text) THEN Append(acc, cur)
    ELSE IF text[i] = "|" THEN SplitAlternation(text, i + 1, <<>>, Append(acc, cur))
    ELSE SplitAlternation(text, i + 1, Append(cur, text[i]), acc)

\* the alternatives of a text; a one-character class [c] matches the literal c
Alternatives(text) ==
    LET alts == SplitAlternation(text, 1, <<>>, <<>>)
        Literal(alt) ==
            IF Len(alt) = 3 /\ alt[1] = "[" /\ alt[3] = "]" THEN <<alt[2]>> ELSE alt
    IN  [k \in 1..Len(alts) |-> Literal(alts[k])]

\* `{}`: one of the alternatives, the earlier one preferred
Group(text) == [kind |-> "alts", alts |-> Alternatives(text)]

IsPrefixAt(lit, s, pos) ==
    /\ pos + Len(lit) - 1 <= Len(s)
    /\ \A j \in 1..Len(lit) : s[pos + j - 1] = lit[j]

\* the length of the run of \d characters of s starting at pos
RECURSIVE DigitRun(_, _)
DigitRun(s, pos) ==
    IF pos <= Len(s) /\ IsRegexDigit(s[pos]) THEN 1 + DigitRun(s, pos + 1) ELSE 0

\* Option<captures> of groups g.. matched at pos (backtracking, first choice wins)
RECURSIVE MatchFrom(_, _, _, _)
MatchFrom(groups, s, pos, g) ==
    LET \* the candidate texts of a group at pos, most preferred first
        shorter_runs(n) == [k \in 1..(n + 1) |-> SubSeq(s, pos, pos + n - k)]
        Candidates(group) ==
            IF group.kind = "digits" THEN shorter_runs(DigitRun(s, pos)) ELSE group.alts
        matched(c) == Some(<<c>> \o MatchFrom(groups, s, pos + Len(c), g + 1)[1])
        first_of(cands, K) == IF K = {} THEN None ELSE matched(cands[Min(K)])
        backtrack(cands) ==
            first_of(cands,
                     {k \in 1..Len(cands) :
                         /\ IsPrefixAt(cands[k], s, pos)
                         /\ MatchFrom(groups, s, pos + Len(cands[k]), g + 1) # None})
    IN  IF g > Len(groups) THEN Some(<<>>) ELSE backtrack(Candidates(groups[g]))

\* Regex::captures: the match at the leftmost position that has one
Captures(groups, s) ==
    LET leftmost(P) == IF P = {} THEN None ELSE MatchFrom(groups, s, Min(P), 1)
    IN  leftmost({pos \in 1..(Len(s) + 1) : MatchFrom(groups, s, pos, 1) # None})

(***************************************************************************)
(* metar/wxcodes.rs: wxcode_from_str                                       *)
(***************************************************************************)
\* (?<intensity>({})?)(?<descr>({})?)(?<code>{})(?<location>({})?)
WxRegexPattern ==
    LET \* `({})?`: greedy, one of the alternatives if possible, else nothing
        OptionalGroup(text) == [kind |-> "alts", alts |-> Append(Alternatives(text), <<>>)]
    IN
        <<OptionalGroup(WxCodeIntensityGetRegex),
          OptionalGroup(WxCodeDescriptionGetRegex),
          Group(WxCodeGetRegex),
          OptionalGroup(WxCodeProximityGetRegex)>>

WxCodeField(code, intensity, proximity, descriptor) ==
    [tag |-> "WxCode", code |-> code, intensity |-> intensity,
     proximity |-> proximity, descriptor |-> descriptor]

wxcode_from_str(s) ==
    LET field_of(code, intensity, descriptor, proximity) ==
            IF code = None \/ intensity = None \/ descriptor = None \/ proximity = None
            THEN None
            ELSE Some(WxCodeField(code[1], intensity[1], proximity[1], descriptor[1]))
        decode(matches) ==
            IF matches = None THEN None
            ELSE field_of(WxCodeFromStr(matches[1][3]),
                          WxCodeIntensityFromStr(matches[1][1]),
                          WxCodeDescriptionFromStr(matches[1][2]),
                          WxCodeProximityFromStr(matches[1][4]))
    IN  decode(Captures(WxRegexPattern, s))

(***************************************************************************)
(* metar/clouds.rs                                                         *)
(***************************************************************************)
\* Clouds::iter(): the variants in declaration order
CloudsIter == <<"Skc", "Few", "Sct", "Brk", "Ovc">>

\* impl Display for Clouds
CloudsDisplayArms ==
    <<<<"Skc", <<"S", "K", "C">>>>,
      <<"Few", <<"F", "E", "W">>>>,
      <<"Sct", <<"S", "C", "T">>>>,
      <<"Brk", <<"B", "R", "K">>>>,
      <<"Ovc", <<"O", "V", "C">>>>>>

\* the arms with broken spelled "bkn", which Display does not write
CloudsFromStrArms_Bkn ==
    <<<<<<"s", "k", "c">>, "Skc">>,
      <<<<"f", "e", "w">>, "Few">>,
      <<<<"s", "c", "t">>, "Sct">>,
      <<<<"b", "k", "n">>, "Brk">>,
      <<<<"o", "v", "c">>, "Ovc">>>>

\* impl FromStr for Clouds: the arms matched against s.to_lowercase()
CloudsFromStrArms ==
    <<<<<<"s", "k", "c">>, "Skc">>,
      <<<<"f", "e", "w">>, "Few">>,
      <<<<"s", "c", "t">>, "Sct">>,
      <<<<"b", "r", "k">>, "Brk">>,
      <<<<"o", "v", "c">>, "Ovc">>>>

CloudsDisplay(v) == DisplayOf(CloudsDisplayArms, v)
CloudsFromStr(s) == FromStrOf(CloudsFromStrArms, s)

CloudsGetRegex ==
    TruncateBar(PushVariants(CloudsIter, CloudsDisplayArms, TRUE, 1, <<>>))

\* i64::MAX = 9223372036854775807, as its decimal digits
I64MaxDigits ==
    <<"9","2","2","3","3","7","2","0","3","6","8","5","4","7","7","5","8","0","7">>

RECURSIVE StripLeadingZeros(_)
StripLeadingZeros(s) ==
    IF Len(s) > 1 /\ s[1] = "0" THEN StripLeadingZeros(Tail(s)) ELSE s

\* a < b for two digit strings of the same length
DigitsLess(a, b) ==
    \E k \in 1..Len(a) :
        /\ \A j \in 1..(k - 1) : a[j] = b[j]
        /\ DigitValue(a[k]) < DigitValue(b[k])

RECURSIVE DecimalValue(_)
DecimalValue(s) ==
    IF Len(s) = 0 THEN 0
    ELSE 10 * DecimalValue(SubSeq(s, 1, Len(s) - 1)) + DigitValue(s[Len(s)])

\* the decimal digits of a natural number
RECURSIVE DecimalDigits(_)
DecimalDigits(n) ==
    IF n < 10 THEN <<AsciiDigits[n + 1]>>
    ELSE Append(DecimalDigits(n \div 10), AsciiDigits[(n % 10) + 1])

\* format!("{n}") and format!("{n:04}") of an i64: the sign, then the digits
\* padded with zeros up to the width, the sign counted in the width
I64Display(n, width) ==
    LET sign == IF n < 0 THEN <<"-">> ELSE <<>>
        digits == DecimalDigits(IF n < 0 THEN -n ELSE n)
        pad == width - Len(sign) - Len(digits)
    IN  sign \o [k \in 1..(IF pad > 0 THEN pad ELSE 0) |-> "0"] \o digits

\* str::parse::<i64>().ok() on a string without sign: Err on the empty string,
\* on a character that is not an ASCII digit and on a value above i64::MAX
ParseI64(s) ==
    IF Len(s) = 0 \/ \E k \in 1..Len(s) : ~IsAsciiDigit(s[k]) THEN None
    ELSE LET t == StripLeadingZeros(s)
         IN  IF Len(t) > Len(I64MaxDigits)
                \/ (Len(t) = Len(I64MaxDigits) /\ DigitsLess(I64MaxDigits, t))
             THEN None
             ELSE Some(DecimalValue(t))

\* Option::unwrap_or
UnwrapOr(opt, default) == IF opt = None THEN default ELSE opt[1]

\* (?<obscuration>{})(?<level>\d*)
CloudsRegexPattern ==
    LET \* a digit class under a star: greedy, as many digits as possible
        DigitsGroup == [kind |-> "digits", alts |-> <<>>]
    IN
        <<Group(CloudsGetRegex), DigitsGroup>>

CloudsField(obscuration, level) ==
    [tag |-> "Clouds", cover |-> obscuration, level |-> level]

\* clouds_from_str with `.ok()?` on the level in place of `.unwrap_or(0)`
clouds_from_str_LevelRequired(s) ==
    LET matches == Captures(CloudsRegexPattern, s)
    IN  IF matches = None THEN None
        ELSE LET obscuration == CloudsFromStr(matches[1][1])
                 level == ParseI64(matches[1][2])
             IN  IF obscuration = None \/ level = None THEN None
                 ELSE Some(CloudsField(obscuration[1], level[1]))

clouds_from_str(s) ==
    LET field_of(obscuration, level) ==
            IF obscuration = None THEN None ELSE Some(CloudsField(obscuration[1], level))
        decode(matches) ==
            IF matches = None THEN None
            ELSE field_of(CloudsFromStr(matches[1][1]), UnwrapOr(ParseI64(matches[1][2]), 0))
    IN  decode(Captures(CloudsRegexPattern, s))

(***************************************************************************)
(* serde_json::Value.  A value is a record tagged by its kind: a string    *)
(* carries its characters, an integer its value, a fractional number the   *)
(* decimal mantissa m and the number e of decimals (29.92 is m = 2992,     *)
(* e = 2), an array its elements and an object the function from its keys  *)
(* to their values.                                                        *)
(***************************************************************************)
JStr(s) == [t |-> "str", v |-> s]
JInt(n) == [t |-> "int", v |-> n]
JFloat(m, e) == [t |-> "f64", m |-> m, e |-> e]
JArr(a) == [t |-> "arr", v |-> a]
JObj(o) == [t |-> "obj", v |-> o]

\* an object without keys
NoKeys == <<>>

\* Value::get(key): Some only on an object that has the key
Get(j, key) == IF j.t = "obj" /\ key \in DOMAIN j.v THEN Some(j.v[key]) ELSE None

\* Option<&Value>::and_then(|x| x.get(key)), also the `?` chain a.get(k1)?.get(k2)
AndThenGet(opt, key) == IF opt = None THEN None ELSE Get(opt[1], key)

AsStr(opt) == IF opt # None /\ opt[1].t = "str" THEN Some(opt[1].v) ELSE None
AsI64(opt) == IF opt # None /\ opt[1].t = "int" THEN Some(opt[1].v) ELSE None
AsArray(opt) == IF opt # None /\ opt[1].t = "arr" THEN Some(opt[1].v) ELSE None

\* u64: the integers that are not negative
AsU64(opt) == IF opt # None /\ opt[1].t = "int" /\ opt[1].v >= 0 THEN Some(opt[1].v) ELSE None

(***************************************************************************)
(* metar/units.rs                                                          *)
(***************************************************************************)

\* impl From<&str> for PressureUnit, AltitudeUnit, SpeedUnit, TemperatureUnit
\* and DistanceUnit: the arms that name a unit
UnitArms ==
    [pressure |-> <<<<<<"h", "p", "a">>, "Hpa">>,
                    <<<<"i", "n", "h", "g">>, "Inhg">>>>,
     altitude |-> <<<<<<"f", "t">>, "Ft">>,
                    <<<<"m">>, "M">>>>,
     wind_speed |-> <<<<<<"k", "t">>, "Kt">>,
                      <<<<"k", "p", "h">>, "Kph">>,
                      <<<<"m", "p", "h">>, "Mph">>>>,
     temperature |-> <<<<<<"c">>, "C">>,
                       <<<<"f">>, "F">>>>,
     distance |-> <<<<<<"m">>, "M">>,
                    <<<<"n", "m">>, "Nm">>,
                    <<<<"m", "i">>, "Mi">>,
                    <<<<"k", "m">>, "Km">>>>]

\* #[derive(Default)] with the #[default] variant of every unit
\* the same with `match value` in place of `match value.to_lowercase().as_str()`
UnitFromKey_CaseSensitive(units_json, key, arms, default) ==
    LET str == AsStr(Get(units_json, key))
        K == IF str = None THEN {} ELSE {k \in 1..Len(arms) : arms[k][1] = str[1]}
    IN  IF K = {} THEN default ELSE arms[Min(K)][2]

\* units_json.get(key).and_then(|v| v.as_str()).map(Unit::from).unwrap_or_default()
UnitFromKey(units_json, key, arms, default) ==
    LET str == AsStr(Get(units_json, key))
    IN  IF str = None THEN default ELSE UnwrapOr(FromStrOf(arms, str[1]), default)

Units_from_json(json) ==
    LET units_json == Get(json, "units")
        \* the #[default] variant of each unit
        Default == [pressure |-> "Hpa", altitude |-> "Ft", wind_speed |-> "Kt",
                    temperature |-> "C", distance |-> "M"]
    IN  IF units_json = None THEN Default
        ELSE [pressure |-> UnitFromKey(units_json[1], "altimeter", UnitArms.pressure,
                                       Default.pressure),
              altitude |-> UnitFromKey(units_json[1], "altitude", UnitArms.altitude,
                                       Default.altitude),
              wind_speed |-> UnitFromKey(units_json[1], "wind_speed", UnitArms.wind_speed,
                                         Default.wind_speed),
              temperature |-> UnitFromKey(units_json[1], "temperature",
                                          UnitArms.temperature, Default.temperature),
              distance |-> UnitFromKey(units_json[1], "visibility", UnitArms.distance,
                                       Default.distance)]

(***************************************************************************)
(* chrono::DateTime::parse_from_rfc3339.  A DateTime<FixedOffset> is the   *)
(* record of its calendar fields on the local clock; it carries `offset`,  *)
(* the seconds east of UTC, when that is not 0, and `nanos`, the fraction  *)
(* of the second in nanoseconds, when that is not 0.  Inside a leap second *)
(* (:60) second is 59 and nanos is 1000000000 or more, as in chrono.       *)
(***************************************************************************)
RECURSIVE Pow10(_)
Pow10(n) == IF n = 0 THEN 1 ELSE 10 * Pow10(n - 1)

parse_from_rfc3339(s) ==
    LET \* scan::number(s, n, n): n ASCII digits from pos
        Number(pos, n) ==
            /\ pos + n - 1 <= Len(s)
            /\ \A k \in pos..(pos + n - 1) : IsAsciiDigit(s[k])
        \* scan::char and the match on the date-time separator
        Char(pos, set) == pos <= Len(s) /\ s[pos] \in set
        RECURSIVE AsciiDigitRun(_)
        AsciiDigitRun(pos) ==
            IF pos <= Len(s) /\ IsAsciiDigit(s[pos]) THEN 1 + AsciiDigitRun(pos + 1) ELSE 0
        IsLeapYear(y) == (y % 4 = 0 /\ y % 100 # 0) \/ y % 400 = 0
        DaysInMonth(y, m) ==
            IF m = 2 THEN (IF IsLeapYear(y) THEN 29 ELSE 28)
            ELSE IF m \in {4, 6, 9, 11} THEN 30 ELSE 31
        \* scan::nanosecond: one to nine digits scaled to nanoseconds, further
        \* digits skipped
        nanosecond(kept) ==
            IF kept = 0 THEN 0
            ELSE DecimalValue(SubSeq(s, 21, 20 + kept)) * Pow10(9 - kept)
        \* scan::timezone_offset at z: Z or z, or a sign (U+2212 allowed), two
        \* digits of hours, a colon and two digits of minutes
        hours(z) == DecimalValue(SubSeq(s, z + 1, z + 2))
        minutes(z) == DecimalValue(SubSeq(s, z + 4, z + 5))
        timezone_offset(z) ==
            \/ Char(z, {"Z", "z"}) /\ Len(s) = z
            \/ /\ Char(z, {"+", "-", "u2212"})
               /\ Number(z + 1, 2) /\ Char(z + 3, {":"}) /\ Number(z + 4, 2)
               /\ Len(s) = z + 5
               \* minutes 00..59, and the offset within 23:59 either way
               /\ minutes(z) <= 59 /\ hours(z) <= 23
        offset(z) ==
            IF Char(z, {"Z", "z"}) THEN 0
            ELSE IF s[z] = "+" THEN hours(z) * 3600 + minutes(z) * 60
            ELSE -(hours(z) * 3600 + minutes(z) * 60)
        \* Parsed::to_datetime: the fields checked against the calendar
        with(fields, east, nanos) ==
            Some(fields @@ (IF east # 0 THEN [offset |-> east] ELSE <<>>)
                        @@ (IF nanos # 0 THEN [nanos |-> nanos] ELSE <<>>))
        to_datetime(year, month, day, hour, minute, second, fraction, east) ==
            IF /\ month \in 1..12
               /\ day \in 1..DaysInMonth(year, month)
               /\ hour \in 0..23 /\ minute \in 0..59 /\ second \in 0..60
            THEN \* Parsed::to_naive_time: :60 is second 59 with a full second of nanos
                 with([year |-> year, month |-> month, day |-> day,
                       hour |-> hour, minute |-> minute,
                       second |-> IF second = 60 THEN 59 ELSE second],
                      east,
                      IF second = 60 THEN 1000000000 + fraction ELSE fraction)
            ELSE None
        \* the text with fraction_len digits of fraction and the zone at z
        parse(fraction_len, z) ==
            IF /\ Number(1, 4) /\ Char(5, {"-"}) /\ Number(6, 2) /\ Char(8, {"-"})
               /\ Number(9, 2)
               /\ Char(11, {"t", "T", " "})
               /\ Number(12, 2) /\ Char(14, {":"}) /\ Number(15, 2) /\ Char(17, {":"})
               /\ Number(18, 2)
               /\ (Char(20, {"."}) => fraction_len >= 1)
               /\ timezone_offset(z)
            THEN to_datetime(DecimalValue(SubSeq(s, 1, 4)), DecimalValue(SubSeq(s, 6, 7)),
                             DecimalValue(SubSeq(s, 9, 10)), DecimalValue(SubSeq(s, 12, 13)),
                             DecimalValue(SubSeq(s, 15, 16)), DecimalValue(SubSeq(s, 18, 19)),
                             nanosecond(IF fraction_len > 9 THEN 9 ELSE fraction_len),
                             offset(z))
            ELSE None
        scan(fraction_len) ==
            parse(fraction_len, IF Char(20, {"."}) THEN 21 + fraction_len ELSE 20)
    IN  scan(IF Char(20, {"."}) THEN AsciiDigitRun(21) ELSE 0)

(***************************************************************************)
(* position.rs and the Config of main.rs / config.rs                       *)
(***************************************************************************)
Airfield(icao) == [kind |-> "Airfield", icao |-> icao]
GeoIP == [kind |-> "GeoIP"]
\* LatLong(f64, f64): an f64 is kept as the decimal m / 10^e it stands for
LatLong(lat, lon) == [kind |-> "LatLong", lat |-> lat, lon |-> lon]

\* impl Default for Config; the two ages are TimeDelta values in seconds
ConfigDefault ==
    [position |-> GeoIP,
     cloud_minimum |-> 6, cloud_marginal |-> 15,
     temp_minimum |-> 0, spread_minimum |-> 3,
     wind_var_maximum |-> 45, wind_maximum |-> 15, gust_maximum |-> 10,
     age_maximum |-> 6 * 3600, age_marginal |-> 3600,
     visibility_minimum |-> 1500, visibility_marginal |-> 5000]

\* Config { position, ..Default::default() }
ConfigAt(position) == [ConfigDefault EXCEPT !.position = position]

(***************************************************************************)
(* metar.rs: the WxField variants and the field extractors                 *)
(***************************************************************************)
TimeStampField(datetime) == [tag |-> "TimeStamp", datetime |-> datetime]
WindField(direction, strength, gusts, unit) ==
    [tag |-> "Wind", direction |-> direction, strength |-> strength,
     gusts |-> gusts, unit |-> unit]
WindVariabilityField(low_dir, hi_dir) ==
    [tag |-> "WindVariability", low_dir |-> low_dir, hi_dir |-> hi_dir]
VisibilityField(vis) == [tag |-> "Visibility", vis |-> vis]
TemperatureField(temp, dewpoint, unit) ==
    [tag |-> "Temperature", temp |-> temp, dewpoint |-> dewpoint, unit |-> unit]
QnhField(qnh, unit) == [tag |-> "Qnh", qnh |-> qnh, unit |-> unit]
RemarksField(str) == [tag |-> "Remarks", str |-> str]

get_remarks(json) ==
    LET rmks == AsStr(Get(json, "remarks"))
    IN  IF rmks = None THEN None ELSE Some(RemarksField(rmks[1]))

get_timestamp(json) ==
    LET datetime_str == AsStr(AndThenGet(Get(json, "time"), "dt"))
    IN  IF datetime_str = None THEN None
        ELSE LET datetime == parse_from_rfc3339(datetime_str[1])
             IN  IF datetime = None THEN None ELSE Some(TimeStampField(datetime[1]))

\* as_f64()?.mul(100.).round() as i64 on the number written m / 10^e, in
\* IEEE 754 double arithmetic.  x is the double nearest to m / 10^e, y the
\* double nearest to 100 * x, and round() takes y to the nearest integer, a
\* half away from zero.  For |m| < 2^31 the two roundings move the value by
\* less than its distance to a half, unless 100 * m / 10^e is a half exactly,
\* k / 2 with k odd: then y is below k / 2, and round() goes down, exactly
\* when x was rounded down by more than half the spacing of the doubles
\* around k / 2, divided by 100.
MulHundredRound(m, e) ==
    LET a == IF m < 0 THEN -m ELSE m
        RECURSIVE Pow2(_)
        Pow2(n) == IF n = 0 THEN 1 ELSE 2 * Pow2(n - 1)
        RECURSIVE Pow2Mod25(_)
        Pow2Mod25(n) == IF n = 0 THEN 1 ELSE (2 * Pow2Mod25(n - 1)) % 25
        \* the exponent of the double nearest to k / 200: the ex with
        \* 2^ex <= k / 200 < 2^(ex + 1)
        RECURSIVE ExponentUp(_, _)
        ExponentUp(k, ex) == IF 200 * Pow2(ex + 1) <= k THEN ExponentUp(k, ex + 1) ELSE ex
        RECURSIVE ExponentDown(_, _)
        ExponentDown(k, n) == IF 200 > k * Pow2(n) THEN ExponentDown(k, n + 1) ELSE -n
        \* 100 * x for x = k / 200 comes out below k / 2
        BelowHalf(k) ==
            LET ex == IF k >= 200 THEN ExponentUp(k, 0) ELSE ExponentDown(k, 0)
                \* k / 200 in units of the last place of x is N / 25 with
                \* N = k * 2^(49 - ex): x is rounded down by r25 / 25 of a unit
                r25 == ((k % 25) * Pow2Mod25(49 - ex)) % 25
                \* k / 2 has the exponent ex + 6, not ex + 7: the spacing
                \* around k / 2 is 64 units of x
                six == k < Pow2(ex + 8)
            IN  six /\ r25 >= 9 /\ r25 <= 12
        mag ==
            IF e <= 2 THEN a * Pow10(2 - e)
            ELSE IF e >= 12 THEN 0
            ELSE LET d == Pow10(e - 2)
                     q == a \div d
                     r == a % d
                 IN  IF 2 * r < d THEN q
                     ELSE IF 2 * r > d THEN q + 1
                     ELSE IF BelowHalf(2 * q + 1) THEN q
                     ELSE q + 1
    IN  IF m < 0 THEN -mag ELSE mag

\* get_qnh without `.mul(100.)`: the fractional value is rounded as it is
get_qnh_Unscaled(json, units) ==
    LET qnh_val == AndThenGet(Get(json, "altimeter"), "value")
    IN  IF qnh_val = None THEN None
        ELSE IF qnh_val[1].t = "f64"
             THEN Some(QnhField(MulHundredRound(qnh_val[1].m, qnh_val[1].e + 2),
                                units.pressure))
             ELSE LET qnh == AsI64(qnh_val)
                  IN  IF qnh = None THEN None ELSE Some(QnhField(qnh[1], units.pressure))

get_qnh(json, units) ==
    LET qnh_val == AndThenGet(Get(json, "altimeter"), "value")
    IN  IF qnh_val = None THEN None
        ELSE IF qnh_val[1].t = "f64"
             THEN Some(QnhField(MulHundredRound(qnh_val[1].m, qnh_val[1].e), units.pressure))
             ELSE LET qnh == AsI64(qnh_val)
                  IN  IF qnh = None THEN None ELSE Some(QnhField(qnh[1], units.pressure))

get_temp(json, units) ==
    LET temp == AsI64(AndThenGet(Get(json, "temperature"), "value"))
        dewpoint == AsI64(AndThenGet(Get(json, "dewpoint"), "value"))
    IN  IF temp = None \/ dewpoint = None THEN None
        ELSE Some(TemperatureField(temp[1], dewpoint[1], units.temperature))

\* insertion of x into an ascending sequence
RECURSIVE SortedInsert(_, _)
SortedInsert(sorted, x) ==
    IF Len(sorted) = 0 THEN <<x>>
    ELSE IF x <= sorted[1] THEN <<x>> \o sorted
    ELSE <<sorted[1]>> \o SortedInsert(Tail(sorted), x)

\* Vec<i64>::sort_unstable
RECURSIVE SortUnstable(_)
SortUnstable(v) ==
    IF Len(v) = 0 THEN <<>> ELSE SortedInsert(SortUnstable(Tail(v)), v[1])

\* get_wind_var without `dirs.sort_unstable()`
get_wind_var_Unsorted(json) ==
    LET wind_dirs == AsArray(Get(json, "wind_variable_direction"))
    IN  IF wind_dirs = None THEN None
        ELSE LET values == [k \in 1..Len(wind_dirs[1]) |->
                               AsI64(Get(wind_dirs[1][k], "value"))]
             IN  IF \E k \in 1..Len(values) : values[k] = None THEN None
                 ELSE LET dirs == [k \in 1..Len(values) |-> values[k][1]]
                      IN  IF Len(dirs) = 0 THEN None
                          ELSE Some(WindVariabilityField(dirs[1], dirs[Len(dirs)]))

\* get_wind_var that skips the elements without an integer value
get_wind_var_SkipInvalid(json) ==
    LET wind_dirs == AsArray(Get(json, "wind_variable_direction"))
    IN  IF wind_dirs = None THEN None
        ELSE LET values == [k \in 1..Len(wind_dirs[1]) |->
                               AsI64(Get(wind_dirs[1][k], "value"))]
                 valid == SelectSeq(values, LAMBDA v : v # None)
                 dirs == SortUnstable([k \in 1..Len(valid) |-> valid[k][1]])
             IN  IF Len(dirs) = 0 THEN None
                 ELSE Some(WindVariabilityField(dirs[1], dirs[Len(dirs)]))

get_wind_var(json) ==
    LET wind_dirs == AsArray(Get(json, "wind_variable_direction"))
    IN  IF wind_dirs = None THEN None
        ELSE LET values == [k \in 1..Len(wind_dirs[1]) |->
                               AsI64(Get(wind_dirs[1][k], "value"))]
             IN  IF \E k \in 1..Len(values) : values[k] = None THEN None
                 ELSE LET dirs == SortUnstable([k \in 1..Len(values) |-> values[k][1]])
                      IN  IF Len(dirs) = 0 THEN None
                          ELSE Some(WindVariabilityField(dirs[1], dirs[Len(dirs)]))

\* get_winds with `?` on the gust in place of `.unwrap_or(0)`
get_winds_GustRequired(json, units) ==
    LET direction == AsI64(AndThenGet(Get(json, "wind_direction"), "value"))
        strength == AsI64(AndThenGet(Get(json, "wind_speed"), "value"))
        gusts == AsI64(AndThenGet(Get(json, "wind_gust"), "value"))
    IN  IF direction = None \/ strength = None \/ gusts = None THEN None
        ELSE Some(WindField(direction[1], strength[1], gusts[1], units.wind_speed))

get_winds(json, units) ==
    LET direction == AsI64(AndThenGet(Get(json, "wind_direction"), "value"))
        strength == AsI64(AndThenGet(Get(json, "wind_speed"), "value"))
        gusts == UnwrapOr(AsI64(AndThenGet(Get(json, "wind_gust"), "value")), 0)
    IN  IF direction = None \/ strength = None THEN None
        ELSE Some(WindField(direction[1], strength[1], gusts, units.wind_speed))

get_visibility(json, units) ==
    LET vis == AsI64(AndThenGet(Get(json, "visibility"), "value"))
    IN  IF vis = None THEN None ELSE Some(VisibilityField(vis[1]))

\* str::eq_ignore_ascii_case
EqIgnoreAsciiCase(a, b) ==
    LET \* u8::to_ascii_lowercase: only A..Z change
        to_ascii_lowercase(c) ==
            IF \E i \in 1..26 : Upper[i] = c
            THEN Lower[CHOOSE i \in 1..26 : Upper[i] = c]
            ELSE c
    IN  /\ Len(a) = Len(b)
        /\ \A k \in 1..Len(a) : to_ascii_lowercase(a[k]) = to_ascii_lowercase(b[k])

\* is_exact_match with `station == icao` in place of eq_ignore_ascii_case
is_exact_match_CaseSensitive(station, config) ==
    IF config.position.kind = "Airfield"
    THEN station = config.position.icao
    ELSE TRUE

is_exact_match(station, config) ==
    IF config.position.kind = "Airfield"
    THEN EqIgnoreAsciiCase(station, config.position.icao)
    ELSE TRUE

\* the loop with `?` on every entry: the first entry that does not decode ends it
RECURSIVE DecodeReprs_StopAtFailure(_, _, _)
DecodeReprs_StopAtFailure(entries, k, wx) ==
    IF k > Len(entries) THEN <<>>
    ELSE LET str == AsStr(Get(entries[k], "repr"))
             decoded == IF str = None THEN None
                        ELSE IF wx THEN wxcode_from_str(str[1])
                        ELSE clouds_from_str(str[1])
         IN  IF decoded = None THEN <<>>
             ELSE decoded \o DecodeReprs_StopAtFailure(entries, k + 1, wx)

\* the fields of every list entry whose `repr` is a string the grammar decodes
RECURSIVE DecodeReprs(_, _, _)
DecodeReprs(entries, k, wx) ==
    IF k > Len(entries) THEN <<>>
    ELSE LET str == AsStr(Get(entries[k], "repr"))
             decoded == IF str = None THEN None
                        ELSE IF wx THEN wxcode_from_str(str[1])
                        ELSE clouds_from_str(str[1])
         IN  decoded \o DecodeReprs(entries, k + 1, wx)

\* metar/wxcodes.rs
get_wxcodes_from_json(json) ==
    LET wxcodes == AsArray(Get(json, "wx_codes"))
    IN  IF wxcodes = None THEN <<>> ELSE DecodeReprs(wxcodes[1], 1, TRUE)

\* metar/clouds.rs
get_clouds_from_json(json) ==
    LET wxcodes == AsArray(Get(json, "clouds"))
    IN  IF wxcodes = None THEN <<>> ELSE DecodeReprs(wxcodes[1], 1, FALSE)

\* the fields pushed by Metar::from_json, in the order of its pushes
MetarFields(json, units) ==
    get_timestamp(json) \o get_winds(json, units) \o get_wind_var(json)
        \o get_visibility(json, units) \o get_temp(json, units) \o get_qnh(json, units)
        \o get_wxcodes_from_json(json) \o get_clouds_from_json(json)
        \o get_remarks(json)

\* Metar::from_json requiring the station: `json.get("station")?.as_str()?`
Metar_from_json_StationRequired(json, config) ==
    LET station == AsStr(Get(json, "station"))
    IN  IF station = None THEN None
        ELSE Some([icao_code |-> station[1],
                   fields |-> MetarFields(json, Units_from_json(json)),
                   exact_match |-> is_exact_match(station[1], config)])

\* Metar::from_json appending the cloud layers before the weather phenomena
Metar_from_json_CloudsFirst(json, config) ==
    LET icao == Get(json, "station")
        station == IF icao = None THEN Some(<<>>) ELSE AsStr(icao)
        units == Units_from_json(json)
    IN  IF station = None THEN None
        ELSE Some([icao_code |-> station[1],
                   fields |-> get_timestamp(json) \o get_winds(json, units)
                       \o get_wind_var(json) \o get_visibility(json, units)
                       \o get_temp(json, units) \o get_qnh(json, units)
                       \o get_clouds_from_json(json) \o get_wxcodes_from_json(json)
                       \o get_remarks(json),
                   exact_match |-> is_exact_match(station[1], config)])

\* Metar::from_json: the station stays String::new() when the key is absent,
\* and `icao.as_str()?` returns None when the key holds no string
Metar_from_json(json, config) ==
    LET icao == Get(json, "station")
        station == IF icao = None THEN Some(<<>>) ELSE AsStr(icao)
    IN  IF station = None THEN None
        ELSE Some([icao_code |-> station[1],
                   fields |-> MetarFields(json, Units_from_json(json)),
                   exact_match |-> is_exact_match(station[1], config)])

(***************************************************************************)
(* taf.rs: decoding a forecast                                             *)
(***************************************************************************)
parse_issue_time(json) ==
    LET time_str == AsStr(AndThenGet(Get(json, "time"), "dt"))
    IN  IF time_str = None THEN None ELSE parse_from_rfc3339(time_str[1])

\* Option<(start, end)>
parse_validity_period(json) ==
    LET start_str == AsStr(AndThenGet(Get(json, "start_time"), "dt"))
        end_str == AsStr(AndThenGet(Get(json, "end_time"), "dt"))
    IN  IF start_str = None \/ end_str = None THEN None
        ELSE LET start_time == parse_from_rfc3339(start_str[1])
                 end_time == parse_from_rfc3339(end_str[1])
             IN  IF start_time = None \/ end_time = None THEN None
                 ELSE Some(<<start_time[1], end_time[1]>>)

\* json.get(key).and_then(|t| t.get("dt")).and_then(|t| t.as_str())
\*     .and_then(|s| DateTime::parse_from_rfc3339(s).ok())
OptionalTime(json, key) ==
    LET str == AsStr(AndThenGet(Get(json, key), "dt"))
    IN  IF str = None THEN None ELSE parse_from_rfc3339(str[1])

\* the match on json.get("type")?.as_str()?: no lower-casing, `_ => return None`
PeriodTypeOf(json) ==
    LET \* the arms of the match on `type` in parse_change_group
        PeriodTypeArms ==
            <<<<<<"F", "M">>, "From">>,
              <<<<"B", "E", "C", "M", "G">>, "Becoming">>,
              <<<<"T", "E", "M", "P", "O">>, "Temporary">>,
              <<<<"P", "R", "O", "B">>, "Probability">>>>
    IN
        LET type == AsStr(Get(json, "type"))
            K == IF type = None THEN {}
                 ELSE {k \in 1..Len(PeriodTypeArms) : PeriodTypeArms[k][1] = type[1]}
        IN  IF K = {} THEN None ELSE Some(PeriodTypeArms[Min(K)][2])

\* get_winds(json) and get_visibility(json) as taf.rs calls them, on the
\* sub-tree of a change group alone.  metar.rs holds the extractors that take
\* the units as well; the forms of one argument are not in the source.  By
\* the specification a change group has "its own Field sequence (same
\* extraction rules as section 4.2, scoped to that sub-tree)": the units are those
\* the Unit Resolver reads from the sub-tree, the defaults when it names none.
taf_get_winds(json) == get_winds(json, Units_from_json(json))

taf_get_visibility(json) == get_visibility(json, Units_from_json(json))

\* parse_change_group taking an entry without `type` as an initial block
parse_change_group_UntypedInitial(json, is_initial) ==
    LET period_type == IF is_initial \/ Get(json, "type") = None THEN Some("Initial")
                       ELSE PeriodTypeOf(json)
        probability == AsU64(AndThenGet(Get(json, "probability"), "value"))
    IN  IF period_type = None THEN None
        ELSE Some([period_type |-> period_type[1],
                   start_time |-> OptionalTime(json, "start_time"),
                   end_time |-> OptionalTime(json, "end_time"),
                   fields |-> taf_get_winds(json)
                                \o taf_get_visibility(json)
                                \o get_wxcodes_from_json(json)
                                \o get_clouds_from_json(json),
                   \* `p as u8`: the low eight bits
                   probability |-> IF probability = None THEN None
                                   ELSE Some(probability[1] % 256)])

\* parse_change_group that takes the temperature of the entry as well
parse_change_group_TemperatureToo(json, is_initial) ==
    LET period_type == IF is_initial THEN Some("Initial") ELSE PeriodTypeOf(json)
        probability == AsU64(AndThenGet(Get(json, "probability"), "value"))
    IN  IF period_type = None THEN None
        ELSE Some([period_type |-> period_type[1],
                   start_time |-> OptionalTime(json, "start_time"),
                   end_time |-> OptionalTime(json, "end_time"),
                   fields |-> taf_get_winds(json)
                                \o taf_get_visibility(json)
                                \o get_temp(json, Units_from_json(json))
                                \o get_wxcodes_from_json(json)
                                \o get_clouds_from_json(json),
                   \* `p as u8`: the low eight bits
                   probability |-> IF probability = None THEN None
                                   ELSE Some(probability[1] % 256)])

parse_change_group(json, is_initial) ==
    LET period_type == IF is_initial THEN Some("Initial") ELSE PeriodTypeOf(json)
        probability == AsU64(AndThenGet(Get(json, "probability"), "value"))
    IN  IF period_type = None THEN None
        ELSE Some([period_type |-> period_type[1],
                   start_time |-> OptionalTime(json, "start_time"),
                   end_time |-> OptionalTime(json, "end_time"),
                   fields |-> taf_get_winds(json)
                                \o taf_get_visibility(json)
                                \o get_wxcodes_from_json(json)
                                \o get_clouds_from_json(json),
                   \* `p as u8`: the low eight bits
                   probability |-> IF probability = None THEN None
                                   ELSE Some(probability[1] % 256)])

\* the loop with `periods.insert(1.min(periods.len()), period)` in place of
\* `periods.push(period)`: the change groups end up in reverse order
RECURSIVE ParseGroups_InsertAfterInitial(_, _)
ParseGroups_InsertAfterInitial(forecast_array, i) ==
    IF i > Len(forecast_array) THEN <<>>
    ELSE IF i = 1
         THEN parse_change_group(forecast_array[i], TRUE)
                  \o ParseGroups_InsertAfterInitial(forecast_array, i + 1)
         ELSE ParseGroups_InsertAfterInitial(forecast_array, i + 1)
                  \o parse_change_group(forecast_array[i], FALSE)

RECURSIVE ParseGroups(_, _)
ParseGroups(forecast_array, i) ==
    IF i > Len(forecast_array) THEN <<>>
    ELSE parse_change_group(forecast_array[i], i = 1) \o ParseGroups(forecast_array, i + 1)

\* Option<Vec<ForecastPeriod>>: None only when the key `forecast` is absent
\* parse_forecast_periods with `as_array()?`: no forecast when `forecast`
\* is not an array
parse_forecast_periods_ArrayRequired(json) ==
    LET forecast == Get(json, "forecast")
    IN  IF forecast = None \/ AsArray(forecast) = None THEN None
        ELSE Some(ParseGroups(AsArray(forecast)[1], 1))

parse_forecast_periods(json) ==
    LET forecast == Get(json, "forecast")
    IN  IF forecast = None THEN None
        ELSE LET forecast_array == AsArray(forecast)
             IN  IF forecast_array = None THEN Some(<<>>)
                 ELSE Some(ParseGroups(forecast_array[1], 1))

\* Taf::from_json with the issue time made optional
Taf_from_json_NoIssueTime(json, config) ==
    LET station == AsStr(Get(json, "station"))
        issue_time == parse_issue_time(json)
        validity == parse_validity_period(json)
        forecast_periods == parse_forecast_periods(json)
    IN  IF station = None \/ validity = None \/ forecast_periods = None
        THEN None
        ELSE Some([icao_code |-> station[1],
                   issue_time |-> issue_time,
                   validity_start |-> validity[1][1],
                   validity_end |-> validity[1][2],
                   forecast_periods |-> forecast_periods[1],
                   exact_match |-> is_exact_match(station[1], config)])

Taf_from_json(json, config) ==
    LET station == AsStr(Get(json, "station"))
        issue_time == parse_issue_time(json)
        validity == parse_validity_period(json)
        forecast_periods == parse_forecast_periods(json)
    IN  IF station = None \/ issue_time = None \/ validity = None
            \/ forecast_periods = None
        THEN None
        ELSE Some([icao_code |-> station[1],
                   issue_time |-> issue_time[1],
                   validity_start |-> validity[1][1],
                   validity_end |-> validity[1][2],
                   forecast_periods |-> forecast_periods[1],
                   exact_match |-> is_exact_match(station[1], config)])

(***************************************************************************)
(* api.rs and main.rs: the run of the program                              *)
(***************************************************************************)
\* the text Position::get_location_str gives for a position that needs no
\* lookup; for GeoIP the text is that of the coordinate get_geoip returned
LocationStr(position) ==
    LET \* format!("{}", x) of an f64: the shortest decimal that reads back as
        \* x, written without exponent.  For m / 10^e of up to 15 significant
        \* digits these are its own digits, the zeros that end the fraction
        \* left out, and no point when no fraction is left
        F64Display(x) ==
            LET dropped == CHOOSE k \in 0..x.e :
                               /\ x.m % Pow10(k) = 0
                               /\ (k = x.e \/ x.m % Pow10(k + 1) # 0)
                e == x.e - dropped
                a == (IF x.m < 0 THEN -x.m ELSE x.m) \div Pow10(dropped)
            IN  (IF x.m < 0 THEN <<"-">> ELSE <<>>)
                \o DecimalDigits(a \div Pow10(e))
                \o (IF e > 0 THEN <<".">> \o I64Display(a % Pow10(e), e) ELSE <<>>)
        \* impl Display for LatLong: "{},{}"
        LatLongDisplay == F64Display(position.lat) \o <<",">> \o F64Display(position.lon)
    IN  IF position.kind = "Airfield" THEN position.icao ELSE LatLongDisplay

\* read_config_file once the file has been read and parsed: the Config the
\* table `contents` gives.  A key is read only in a section that is
\* present, get gives nothing on a section that is no table, as_str,
\* as_integer and as_float nothing on a value of another type; the airfield
\* is stored first and the coordinates, when both are floats, after it.
\* TimeDelta::seconds panics beyond i64::MAX / 1000 seconds, which no table
\* drawn here holds.
read_config_file(contents) ==
    LET AsFloat(opt) == IF opt # None /\ opt[1].t = "f64"
                        THEN Some([m |-> opt[1].m, e |-> opt[1].e])
                        ELSE None
        \* contents[section].get(key).and_then(Value::as_integer) under
        \* contents.contains_key(section), the default kept otherwise
        Integer(section, key, default) ==
            UnwrapOr(AsI64(AndThenGet(Get(contents, section), key)), default)
        airfield == AsStr(AndThenGet(Get(contents, "position"), "airfield"))
        lat == AsFloat(AndThenGet(Get(contents, "position"), "lat"))
        lon == AsFloat(AndThenGet(Get(contents, "position"), "lon"))
    IN  [position |-> IF lat # None /\ lon # None THEN LatLong(lat[1], lon[1])
                      ELSE IF airfield # None THEN Airfield(airfield[1])
                      ELSE ConfigDefault.position,
         cloud_minimum |-> Integer("clouds", "cloud_minimum", ConfigDefault.cloud_minimum),
         cloud_marginal |-> Integer("clouds", "cloud_marginal", ConfigDefault.cloud_marginal),
         temp_minimum |-> Integer("temperature", "temp_minimum", ConfigDefault.temp_minimum),
         spread_minimum |->
             Integer("temperature", "spread_minimum", ConfigDefault.spread_minimum),
         wind_var_maximum |->
             Integer("wind", "wind_var_maximum", ConfigDefault.wind_var_maximum),
         wind_maximum |-> Integer("wind", "wind_maximum", ConfigDefault.wind_maximum),
         gust_maximum |-> Integer("wind", "gust_maximum", ConfigDefault.gust_maximum),
         age_maximum |-> Integer("age", "age_maximum", ConfigDefault.age_maximum),
         age_marginal |-> Integer("age", "age_marginal", ConfigDefault.age_marginal),
         visibility_minimum |->
             Integer("visibility", "visibility_minimum", ConfigDefault.visibility_minimum),
         visibility_marginal |->
             Integer("visibility", "visibility_marginal", ConfigDefault.visibility_marginal)]

\* request_wx after the first send_api_call: `.ok()?` returns None to
\* get_weather on a transport error, status 200 reads the body, any other
\* status goes to the nearest-station lookup
AfterFirstFetch_RetryOnErr(ok, status) ==
    IF ok /\ status = 200 THEN "read_body" ELSE "get_nearest_station"

AfterFirstFetch(ok, status) ==
    IF ~ok THEN "get_weather"
    ELSE IF status = 200 THEN "read_body"
    ELSE "get_nearest_station"

\* get_weather after Metar::from_json: `.expect(...)` panics on None
AfterDecode_UnwrapOrDefault(decoded) == "colorise"

AfterDecode(decoded) == IF decoded = None THEN "panicked" ELSE "colorise"

\* a ColoredString: the text and the foreground colour given to it
Coloured(text, color) == [text |-> text, color |-> color]

\* colourise_clouds: format!("{res}{altstr}"), the coverage and the height
\* coloured each on its own
\* colourise_clouds with the marginal bound tested before the minimum
colourise_clouds_MarginalFirst(cloud, alt, config) ==
    LET res == Coloured(CloudsDisplay(cloud), IF cloud = "Ovc" THEN "Red" ELSE IF cloud = "Brk" THEN "Yellow" ELSE "Green")
        altstr == Coloured(I64Display(alt, 0), IF alt <= config.cloud_marginal THEN "Yellow" ELSE IF alt <= config.cloud_minimum THEN "Red" ELSE "Green")
    IN  <<res, altstr>>

colourise_clouds(cloud, alt, config) ==
    LET res == Coloured(CloudsDisplay(cloud),
                        IF cloud = "Ovc" THEN "Red"
                        ELSE IF cloud = "Brk" THEN "Yellow"
                        ELSE "Green")
        altstr == Coloured(I64Display(alt, 0),
                           IF alt <= config.cloud_minimum THEN "Red"
                           ELSE IF alt <= config.cloud_marginal THEN "Yellow"
                           ELSE "Green")
    IN  <<res, altstr>>

\* colourise_visibility: format!("{vis:04}") in one colour
\* colourise_visibility with `vis >= config.visibility_minimum` for yellow
colourise_visibility_MinimumInclusive(vis, config) ==
    <<Coloured(I64Display(vis, 4), IF vis >= config.visibility_marginal THEN "Green" ELSE IF vis >= config.visibility_minimum THEN "Yellow" ELSE "Red")>>

colourise_visibility(vis, config) ==
    <<Coloured(I64Display(vis, 4),
               IF vis >= config.visibility_marginal THEN "Green"
               ELSE IF vis > config.visibility_minimum THEN "Yellow"
               ELSE "Red")>>

\* colourise_temperature: format!("{temp_str}/{dew_str}"), the temperature
\* and the dewpoint coloured each on its own; the unit is not read
\* colourise_temperature with `temp >= config.temp_minimum` for the good colour
colourise_temperature_MinimumInclusive(temp, dewpoint, unit, config) ==
    <<Coloured(I64Display(temp, 0), IF temp >= config.temp_minimum THEN "BrightGreen" ELSE "BrightRed"), Coloured(<<"/">>, "Default"), Coloured(I64Display(dewpoint, 0), IF temp - dewpoint > config.spread_minimum THEN "Green" ELSE "Red")>>

colourise_temperature(temp, dewpoint, unit, config) ==
    LET temp_str == Coloured(I64Display(temp, 0),
                             IF temp > config.temp_minimum THEN "BrightGreen"
                             ELSE "BrightRed")
        dew_str == Coloured(I64Display(dewpoint, 0),
                            IF temp - dewpoint > config.spread_minimum THEN "Green"
                            ELSE "Red")
    IN  <<temp_str, Coloured(<<"/">>, "Default"), dew_str>>

\* colourise_wind_var: format!("{low_dir}V{hi_dir}") in one colour
colourise_wind_var(low_dir, hi_dir, config) ==
    <<Coloured(I64Display(low_dir, 0) \o <<"V">> \o I64Display(hi_dir, 0),
               IF hi_dir - low_dir < config.wind_var_maximum THEN "Green"
               ELSE "Yellow")>>

\* colourise_wind: the direction uncoloured, the speed, the gusts after a G
\* only `if gusts > 0`, then KT; the unit is not read
\* colourise_wind with the gusts compared to the bound on their own
colourise_wind_GustAbsolute(direction, strength, gusts, unit, config) ==
    <<Coloured(I64Display(direction, 3), "Default"), Coloured(I64Display(strength, 2), IF strength > config.wind_maximum THEN "Red" ELSE "Green")>> \o (IF gusts > 0 THEN <<Coloured(<<"G">>, "Default"), Coloured(I64Display(gusts, 2), IF gusts > config.gust_maximum THEN "BrightRed" ELSE "Green")>> ELSE <<>>) \o <<Coloured(<<"K", "T">>, "Default")>>

colourise_wind(direction, strength, gusts, unit, config) ==
    LET dir_str == Coloured(I64Display(direction, 3), "Default")
        strength_str == Coloured(I64Display(strength, 2),
                                 IF strength > config.wind_maximum THEN "Red"
                                 ELSE "Green")
        gust_str == Coloured(I64Display(gusts, 2),
                             IF gusts - strength > config.gust_maximum THEN "BrightRed"
                             ELSE "Green")
    IN  <<dir_str, strength_str>>
        \o (IF gusts > 0 THEN <<Coloured(<<"G">>, "Default"), gust_str>> ELSE <<>>)
        \o <<Coloured(<<"K", "T">>, "Default")>>

\* colourise_qnh: Q and the value for hPa, A and qnh / 100 (truncated
\* towards zero) for inHg
colourise_qnh(qnh, unit, config) ==
    IF unit = "Hpa"
    THEN <<Coloured(<<"Q">> \o I64Display(qnh, 0),
                    IF qnh >= 1013 THEN "Green" ELSE "Yellow")>>
    ELSE <<Coloured(<<"A">> \o I64Display(IF qnh >= 0 THEN qnh \div 100
                                          ELSE -((-qnh) \div 100), 0),
                    IF qnh >= 2992 THEN "Green" ELSE "Yellow")>>

\* colourise_wx_code: format!("{intensitystr}{descrstr}{codestr}{proxstr}")
colourise_wx_code(code, intensity, proximity, descriptor, config) ==
    LET codestr == Coloured(WxCodeDisplay(code),
                            IF code = "Ra" THEN "BrightYellow"
                            ELSE IF code \in {"Gr", "Sn", "Up"} THEN "Red"
                            ELSE IF code = "Gs" THEN "Yellow"
                            ELSE IF code = "Po" THEN "BrightRed"
                            ELSE "White")
        intensitystr == Coloured(WxCodeIntensityDisplay(intensity),
                                 IF intensity = "Light" THEN "BrightGreen"
                                 ELSE IF intensity = "Heavy" THEN "BrightRed"
                                 ELSE "White")
        descrstr == Coloured(WxCodeDescriptionDisplay(descriptor),
                             IF descriptor = "Ts" THEN "Red"
                             ELSE IF descriptor = "Fz" THEN "BrightBlue"
                             ELSE IF descriptor = "Sh" THEN "Yellow"
                             ELSE "White")
        proxstr == Coloured(WxCodeProximityDisplay(proximity), "White")
    IN  <<intensitystr, descrstr, codestr, proxstr>>

\* DateTime::to_utc: the instant on the UTC clock, as the days since
\* 1970-01-01, the second of the day, the fraction of the second in
\* nanoseconds, and the %d, %H and %M that format writes for it
to_utc(datetime) ==
    LET offset == IF "offset" \in DOMAIN datetime THEN datetime.offset ELSE 0
        nanos == IF "nanos" \in DOMAIN datetime THEN datetime.nanos ELSE 0
        \* the days from 1970-01-01 to the local date, for the year y that
        \* begins in March and the month mp counted from March
        local_days(y, mp) ==
            LET of_era(era) ==
                    LET of_year(yoe) ==
                            era * 146097 + yoe * 365 + yoe \div 4 - yoe \div 100
                            + (153 * mp + 2) \div 5 + datetime.day - 1 - 719468
                    IN  of_year(y - era * 400)
            IN  of_era(y \div 400)
        \* the day of the month of the day z, counted from 0000-03-01
        day_of_month(z) ==
            LET of_doy(zdoy) ==
                    LET of_month(zmp) == zdoy - (153 * zmp + 2) \div 5 + 1
                    IN  of_month((5 * zdoy + 2) \div 153)
                of_yoe(zdoe, zyoe) == of_doy(zdoe - (365 * zyoe + zyoe \div 4 - zyoe \div 100))
                of_doe(zdoe) ==
                    of_yoe(zdoe,
                           (zdoe - zdoe \div 1460 + zdoe \div 36524 - zdoe \div 146096) \div 365)
            IN  of_doe(z % 146097)
        \* the local second of the day moved west by the offset
        utc(shifted, days) ==
            LET at(secs) ==
                    [days |-> days, secs |-> secs, frac |-> nanos,
                     day |-> day_of_month(days + 719468),
                     hour |-> secs \div 3600,
                     minute |-> (secs % 3600) \div 60]
            IN  at(shifted % 86400)
        on(local, shifted) == utc(shifted, local + (shifted \div 86400))
    IN  on(local_days(IF datetime.month <= 2 THEN datetime.year - 1 ELSE datetime.year,
                      IF datetime.month > 2 THEN datetime.month - 3 ELSE datetime.month + 9),
           datetime.hour * 3600 + datetime.minute * 60 + datetime.second - offset)

\* now.sub(utctime).lt(&bound), also now.signed_duration_since(utctime) < bound:
\* now is what Utc::now() returned, the seconds since the epoch and the
\* nanoseconds of the second (below 1_000_000_000: the system clock gives no
\* leap second), and bound a TimeDelta of whole seconds
DurationLess(now, utctime, bound) ==
    LET self_secs == now.secs % 86400
        \* NaiveTime::signed_duration_since: the leap second yet to be counted
        leap == IF self_secs > utctime.secs /\ utctime.frac >= 1000000000 THEN 1 ELSE 0
        \* (self.frac - rhs.frac).div_euclid(1_000_000_000): the nanoseconds
        \* left over are not negative, so they decide no comparison with a
        \* bound of whole seconds
        secs_from_frac == (now.nanos - utctime.frac) \div 1000000000
        secs == self_secs - utctime.secs + leap + secs_from_frac
        days == (now.secs \div 86400) - utctime.days
    IN  \* days * 86400 + secs < bound, the product not formed
        days <= (bound - secs - 1) \div 86400

\* utctime.format("%d%H%M") and the like: each number on two digits
RECURSIVE TwoDigits(_)
TwoDigits(numbers) ==
    IF Len(numbers) = 0 THEN <<>>
    ELSE I64Display(numbers[1], 2) \o TwoDigits(Tail(numbers))

\* colourize_timestamp: "%d%H%MZ" of the UTC time coloured by the age
\* now - utctime, where now is what Utc::now() returned
\* colourize_timestamp with `dt <= age_marginal` for the good colour
colourize_timestamp_MarginalInclusive(datetime, config, now) ==
    LET utctime == to_utc(datetime)
        str_rep == TwoDigits(<<utctime.day, utctime.hour, utctime.minute>>) \o <<"Z">>
    IN  <<Coloured(str_rep,
                   IF DurationLess(now, utctime, config.age_marginal + 1) THEN "Green"
                   ELSE IF DurationLess(now, utctime, config.age_maximum) THEN "Yellow"
                   ELSE "Red")>>

colourize_timestamp(datetime, config, now) ==
    LET utctime == to_utc(datetime)
        str_rep == TwoDigits(<<utctime.day, utctime.hour, utctime.minute>>) \o <<"Z">>
    IN  <<Coloured(str_rep,
                   IF DurationLess(now, utctime, config.age_marginal) THEN "Green"
                   ELSE IF DurationLess(now, utctime, config.age_maximum) THEN "Yellow"
                   ELSE "Red")>>

\* the Config that taf.rs reads: the fields of config.rs and the three that
\* Taf::colourise, colourise_forecast_period and get_time_color name
TafConfig(config, show_change_times, age_marginal, age_maximum) ==
    [taf_show_change_times |-> show_change_times,
     taf_age_marginal |-> age_marginal,
     taf_age_maximum |-> age_maximum] @@ config

\* taf.rs get_time_color: the colour for the age now - utctime, where now
\* is what Utc::now() returned
\* get_time_color with the two bounds tested in the other order
get_time_color_MaximumFirst(datetime, config, now) ==
    LET utctime == to_utc(datetime)
    IN  IF ~DurationLess(now, utctime, config.taf_age_maximum) THEN "Red"
        ELSE IF ~DurationLess(now, utctime, config.taf_age_marginal) THEN "Yellow"
        ELSE "Green"

get_time_color(datetime, config, now) ==
    LET utctime == to_utc(datetime)
    IN  IF DurationLess(now, utctime, config.taf_age_marginal) THEN "Green"
        ELSE IF DurationLess(now, utctime, config.taf_age_maximum) THEN "Yellow"
        ELSE "Red"

\* WxField::colourise: one arm per variant
WxField_colourise(f, config, now) ==
    CASE f.tag = "Visibility" -> colourise_visibility(f.vis, config)
      [] f.tag = "TimeStamp" -> colourize_timestamp(f.datetime, config, now)
      [] f.tag = "Wind" ->
             colourise_wind(f.direction, f.strength, f.gusts, f.unit, config)
      [] f.tag = "WindVariability" -> colourise_wind_var(f.low_dir, f.hi_dir, config)
      [] f.tag = "Temperature" ->
             colourise_temperature(f.temp, f.dewpoint, f.unit, config)
      [] f.tag = "Qnh" -> colourise_qnh(f.qnh, f.unit, config)
      [] f.tag = "WxCode" ->
             colourise_wx_code(f.code, f.intensity, f.proximity, f.descriptor, config)
      [] f.tag = "Remarks" -> <<Coloured(f.str, "BlackOnWhite")>>
      [] f.tag = "Clouds" -> colourise_clouds(f.cover, f.level, config)

\* Metar::colorise: the station badge, then every field after a space, in the
\* order of the fields: format!("{} {}", coloured_string, field.colourise(config))
Metar_colorise(m, config, now) ==
    LET coloured_string[k \in 0..Len(m.fields)] ==
            IF k = 0
            THEN <<Coloured(m.icao_code, IF m.exact_match THEN "BrightWhiteOnBlue"
                                         ELSE "BlackOnYellow")>>
            ELSE coloured_string[k - 1]
                 \o <<Coloured(<<" ">>, "Default")>>
                 \o WxField_colourise(m.fields[k], config, now)
    IN  coloured_string[Len(m.fields)]

\* colourise_forecast_period: the indicator, when asked for and enabled,
\* then the fields, each after a space unless it opens the text
\* colourise_forecast_period that does not read config.taf_show_change_times
colourise_forecast_period_AlwaysShown(period, config, show_change_indicator, now) ==
    LET start_time == period.start_time
        end_time == period.end_time
        Window == <<" ">> \o TwoDigits(<<start_time[1].day, start_time[1].hour>>)
                  \o <<"/">> \o TwoDigits(<<end_time[1].day, end_time[1].hour>>)
        Named(name, color) ==
            IF start_time # None /\ end_time # None
            THEN <<Coloured(name \o Window, color)>>
            ELSE <<Coloured(name, color)>>
        indicator ==
            IF show_change_indicator
            THEN CASE period.period_type = "From" ->
                          IF start_time # None
                          THEN <<Coloured(<<"F", "M">>
                                          \o TwoDigits(<<start_time[1].day,
                                                         start_time[1].hour,
                                                         start_time[1].minute>>),
                                          "BrightYellow")>>
                          ELSE <<>>
                   [] period.period_type = "Becoming" ->
                          Named(<<"B", "E", "C", "M", "G">>, "BrightMagenta")
                   [] period.period_type = "Temporary" ->
                          Named(<<"T", "E", "M", "P", "O">>, "BrightBlue")
                   [] period.period_type = "Probability" ->
                          IF period.probability # None
                          THEN Named(<<"P", "R", "O", "B">>
                                     \o I64Display(period.probability[1], 0), "BrightRed")
                          ELSE <<>>
                   [] period.period_type = "Initial" -> <<>>
            ELSE <<>>
        is_empty(output) == \A k \in 1..Len(output) : output[k].text = <<>>
        period_output[i \in 0..Len(period.fields)] ==
            IF i = 0 THEN indicator
            ELSE LET field_str == WxField_colourise(period.fields[i], config, now)
                 IN  IF i - 1 > 0 \/ ~is_empty(period_output[i - 1])
                     THEN period_output[i - 1] \o <<Coloured(<<" ">>, "Default")>>
                          \o field_str
                     ELSE field_str
    IN  period_output[Len(period.fields)]

colourise_forecast_period(period, config, show_change_indicator, now) ==
    LET start_time == period.start_time
        end_time == period.end_time
        Window == <<" ">> \o TwoDigits(<<start_time[1].day, start_time[1].hour>>)
                  \o <<"/">> \o TwoDigits(<<end_time[1].day, end_time[1].hour>>)
        Named(name, color) ==
            IF start_time # None /\ end_time # None
            THEN <<Coloured(name \o Window, color)>>
            ELSE <<Coloured(name, color)>>
        indicator ==
            IF show_change_indicator /\ config.taf_show_change_times
            THEN CASE period.period_type = "From" ->
                          IF start_time # None
                          THEN <<Coloured(<<"F", "M">>
                                          \o TwoDigits(<<start_time[1].day,
                                                         start_time[1].hour,
                                                         start_time[1].minute>>),
                                          "BrightYellow")>>
                          ELSE <<>>
                   [] period.period_type = "Becoming" ->
                          Named(<<"B", "E", "C", "M", "G">>, "BrightMagenta")
                   [] period.period_type = "Temporary" ->
                          Named(<<"T", "E", "M", "P", "O">>, "BrightBlue")
                   [] period.period_type = "Probability" ->
                          IF period.probability # None
                          THEN Named(<<"P", "R", "O", "B">>
                                     \o I64Display(period.probability[1], 0), "BrightRed")
                          ELSE <<>>
                   [] period.period_type = "Initial" -> <<>>
            ELSE <<>>
        is_empty(output) == \A k \in 1..Len(output) : output[k].text = <<>>
        period_output[i \in 0..Len(period.fields)] ==
            IF i = 0 THEN indicator
            ELSE LET field_str == WxField_colourise(period.fields[i], config, now)
                 IN  IF i - 1 > 0 \/ ~is_empty(period_output[i - 1])
                     THEN period_output[i - 1] \o <<Coloured(<<" ">>, "Default")>>
                          \o field_str
                     ELSE field_str
    IN  period_output[Len(period.fields)]

\* Taf::colourise: the header, the first period after a space when it is
\* the initial one, every later period after a line break and five spaces;
\* `groups` keeps the calls of colourise_forecast_period in the order their
\* results are appended, (period, show_change_indicator) each
Taf_colourise(t, config, now) ==
    LET periods == t.forecast_periods
        initial == IF Len(periods) > 0 /\ periods[1].period_type = "Initial"
                   THEN <<[period |-> periods[1], show_change_indicator |-> FALSE]>>
                   ELSE <<>>
        changes == [k \in 1..(IF Len(periods) > 0 THEN Len(periods) - 1 ELSE 0) |->
                       [period |-> periods[k + 1], show_change_indicator |-> TRUE]]
        header ==
            <<Coloured(<<"T", "A", "F", " ">>, "BrightWhite"),
              Coloured(t.icao_code, IF t.exact_match THEN "BrightWhiteOnBlue"
                                    ELSE "BlackOnYellow"),
              Coloured(<<" ">> \o TwoDigits(<<t.issue_time.day, t.issue_time.hour,
                                              t.issue_time.minute>>) \o <<"Z">>,
                       get_time_color(t.issue_time, config, now)),
              Coloured(<<" ">> \o TwoDigits(<<t.validity_start.day, t.validity_start.hour>>)
                       \o <<"/">>
                       \o TwoDigits(<<t.validity_end.day, t.validity_end.hour>>),
                       "BrightCyan")>>
        output[k \in 0..Len(changes)] ==
            IF k = 0
            THEN header
                 \o (IF initial = <<>> THEN <<>>
                     ELSE <<Coloured(<<" ">>, "Default")>>
                          \o colourise_forecast_period(initial[1].period, config, FALSE, now))
            ELSE output[k - 1]
                 \o <<Coloured(<<"\n", " ", " ", " ", " ", " ">>, "Default")>>
                 \o colourise_forecast_period(changes[k].period, config, TRUE, now)
    IN  [icao_code |-> t.icao_code,
         exact_match |-> t.exact_match,
         groups |-> initial \o changes,
         output |-> output[Len(changes)]]

\* a line written by println!: its characters, and the ColoredString it
\* writes when it is the report, whose `text` leaves the escape sequences
\* of the colours out
Line(text) == [text |-> text, rendered |-> None]

(***************************************************************************)
(* The inputs of the specifications.                                       *)
(***************************************************************************)

\* the texts the inputs are made of, character by character
Text ==
    [EDRK |-> <<"E", "D", "R", "K">>,
     EdrkLower |-> <<"e", "d", "r", "k">>,
     KJFK |-> <<"K", "J", "F", "K">>,
     Issue |-> <<"2", "0", "2", "4", "-", "0", "6", "-", "2", "1", "T", "0", "5", ":", "5", "0", ":", "0", "0", "Z">>,
     Start |-> <<"2", "0", "2", "4", "-", "0", "6", "-", "2", "1", "T", "0", "6", ":", "0", "0", ":", "0", "0", "Z">>,
     End |-> <<"2", "0", "2", "4", "-", "0", "6", "-", "2", "2", "T", "1", "2", ":", "0", "0", ":", "0", "0", "Z">>,
     \* the instant of Issue on a clock two hours east, and half a second later
     IssueEast |-> <<"2", "0", "2", "4", "-", "0", "6", "-", "2", "1", "T", "0", "7", ":", "5", "0", ":", "0", "0", "+", "0", "2", ":", "0", "0">>,
     IssueHalf |-> <<"2", "0", "2", "4", "-", "0", "6", "-", "2", "1", "T", "0", "5", ":", "5", "0", ":", "0", "0", ".", "5", "Z">>,
     BadMonth |-> <<"2", "0", "2", "4", "-", "1", "3", "-", "2", "1", "T", "0", "5", ":", "5", "0", ":", "0", "0", "Z">>,
     NoDate |-> <<"s", "o", "o", "n">>,
     Remarks |-> <<"R", "M", "K", " ", "A", "O", "2">>,
     InHg |-> <<"i", "n", "H", "g">>,
     Kt |-> <<"k", "t">>,
     LightRain |-> <<"-", "R", "A">>,
     HeavyTsRa |-> <<"+", "T", "S", "R", "A">>,
     Mist |-> <<"B", "R">>,
     XX |-> <<"X", "X">>,
     Sct050 |-> <<"S", "C", "T", "0", "5", "0">>,
     Few020 |-> <<"F", "E", "W", "0", "2", "0">>,
     Occ33 |-> <<"O", "C", "C", "3", "3">>,
     Ovc200 |-> <<"O", "V", "C", "2", "0", "0">>,
     BECMG |-> <<"B", "E", "C", "M", "G">>,
     PROB |-> <<"P", "R", "O", "B">>,
     TEMPO |-> <<"T", "E", "M", "P", "O">>,
     FM |-> <<"F", "M">>,
     INTER |-> <<"I", "N", "T", "E", "R">>,
     Error |-> <<"n", "o", "t", " ", "f", "o", "u", "n", "d">>,
     HPA |-> <<"H", "P", "A">>,
     MUpper |-> <<"M">>,
     Mph |-> <<"m", "p", "h">>,
     KPH |-> <<"K", "P", "H">>,
     F |-> <<"F">>,
     Mi |-> <<"m", "i">>,
     NM |-> <<"N", "M">>,
     Km |-> <<"K", "m">>,
     Furlong |-> <<"f", "u", "r", "l", "o", "n", "g">>,
     \* spellings with the Kelvin sign U+212A, which to_lowercase takes to k
     KelvinPh |-> <<"u212a", "p", "h">>,
     KelvinM |-> <<"u212a", "m">>,
     EdrKelvin |-> <<"E", "D", "R", "u212a">>]

\* an object entry that is present only when opt is Some
Entry(key, opt) == IF opt = None THEN NoKeys ELSE key :> opt[1]

\* an object of one key
Wrap(key, v) == JObj(key :> v)

\* what a report tree holds at each of its keys: absent (None) or a value
ReportChoices ==
    LET \* the measured values of a report, present or absent key by key
        Measurements(wind, gust, windVar, vis, temp, rmk) ==
            (IF wind
             THEN "wind_direction" :> Wrap("value", JInt(100))
                  @@ "wind_speed" :> Wrap("value", JInt(10))
             ELSE NoKeys)
            @@ (IF gust THEN "wind_gust" :> Wrap("value", JInt(25)) ELSE NoKeys)
            @@ (IF windVar
                THEN "wind_variable_direction"
                         :> JArr(<<Wrap("value", JInt(150)), Wrap("value", JInt(80))>>)
                ELSE NoKeys)
            @@ (IF vis THEN "visibility" :> Wrap("value", JInt(9999)) ELSE NoKeys)
            @@ (IF temp
                THEN "temperature" :> Wrap("value", JInt(20)) @@ "dewpoint" :> Wrap("value", JInt(12))
                ELSE NoKeys)
            @@ (IF rmk THEN "remarks" :> JStr(Text.Remarks) ELSE NoKeys)
    IN
        LET Repr(text) == Wrap("repr", JStr(text))
            Dt(text) == Wrap("dt", JStr(text))
        IN  [station |->
                 <<None, Some(JStr(Text.EDRK)), Some(JStr(Text.EdrkLower)),
                   Some(JStr(Text.KJFK)), Some(JInt(7)), Some([t |-> "null"]),
                   Some(JStr(Text.EdrKelvin))>>,
             time |-> <<None, Some(Dt(Text.Issue)), Some(Dt(Text.BadMonth))>>,
             wx_codes |->
                 <<None,
                   Some(JArr(<<Repr(Text.LightRain)>>)),
                   Some(JArr(<<Repr(Text.HeavyTsRa), Repr(Text.XX), Repr(Text.Mist)>>))>>,
             clouds |->
                 <<None,
                   Some(JArr(<<Repr(Text.Sct050)>>)),
                   Some(JArr(<<Repr(Text.Few020), Repr(Text.Occ33), Repr(Text.Ovc200)>>))>>,
             units |->
                 <<None,
                   Some(JObj("altimeter" :> JStr(Text.InHg) @@ "wind_speed" :> JStr(Text.Kt)))>>,
             altimeter |->
                 <<None, Some(Wrap("value", JInt(1013))), Some(Wrap("value", JFloat(2992, 2)))>>,
             measurements |->
                 <<Measurements(FALSE, FALSE, FALSE, FALSE, FALSE, FALSE),
                   Measurements(TRUE, FALSE, FALSE, FALSE, FALSE, FALSE),
                   Measurements(TRUE, TRUE, TRUE, FALSE, FALSE, FALSE),
                   Measurements(FALSE, FALSE, FALSE, TRUE, TRUE, TRUE),
                   Measurements(TRUE, TRUE, TRUE, TRUE, TRUE, TRUE)>>]

ReportTree(station, time, measurements, altimeter, wx_codes, clouds, units) ==
    JObj(Entry("station", station) @@ Entry("time", time) @@ measurements
         @@ Entry("altimeter", altimeter) @@ Entry("wx_codes", wx_codes)
         @@ Entry("clouds", clouds) @@ Entry("units", units))

PositionChoices ==
    <<Airfield(Text.EDRK), GeoIP, LatLong([m |-> 514, e |-> 1], [m |-> 85, e |-> 1])>>

(***************************************************************************)
(* Specification SpecWx: wxcode_from_str applied to one token.             *)
(***************************************************************************)
Idle ==
    /\ report = None /\ cfg = ConfigDefault /\ metar = None /\ taf = None
    /\ location = None /\ fetches = <<>> /\ resp = None /\ nearest = None
    /\ stdout = <<>> /\ wx_string = None /\ ret = None
    /\ utc_now = None

runVars ==
    <<report, cfg, metar, taf, location, fetches, resp, nearest, stdout, wx_string, ret,
      utc_now>>

\* two-letter strings outside the closed code set
UnknownCodes ==
    {<<"X", "X">>, <<"Z", "Z">>, <<"A", "X">>, <<"X", "R">>, <<"T", "S">>, <<"R", "R">>}

\* the token intensity ++ descriptor ++ code ++ proximity
WxToken(intensity, descriptor, c, proximity) ==
    WxCodeIntensityDisplay(intensity) \o WxCodeDescriptionDisplay(descriptor)
        \o c \o WxCodeProximityDisplay(proximity)

InitWx ==
    LET WxCodeTexts == {WxCodeDisplay(WxCodeIter[k]) : k \in 1..Len(WxCodeIter)}
    IN
        /\ pc = "wxcode_from_str"
        /\ \E i \in Range(WxCodeIntensityVariants), d \in Range(WxCodeDescriptionIter),
              c \in WxCodeTexts \cup UnknownCodes, p \in Range(WxCodeProximityIter) :
                repr = WxToken(i, d, c, p)
        /\ field = None
        /\ Idle

WxcodeFromStr ==
    /\ pc = "wxcode_from_str"
    /\ field' = wxcode_from_str(repr)
    /\ pc' = "returned"
    /\ UNCHANGED <<repr, runVars>>

SpecWx == InitWx /\ [][WxcodeFromStr]_vars

(***************************************************************************)
(* Specification SpecClouds: clouds_from_str applied to one token.         *)
(***************************************************************************)
\* the longest generated digit string
MaxLevelDigits == 3

LevelTexts ==
    LET \* i64::MAX + 1
        I64Overflow ==
            <<"9","2","2","3","3","7","2","0","3","6","8","5","4","7","7","5","8","0","8">>
    IN
        UNION {[1..n -> {"0", "1", "5"}] : n \in 0..MaxLevelDigits}
            \cup {<<"2", "0", "0">>, I64Overflow, <<"u0663">>, <<"5", "u0665">>,
                  \* GARAY DIGIT ZERO, a digit to the pattern, and TOLONG SIKI
                  \* DIGIT ZERO, which the pattern does not know
                  <<"0", "5", "u10d40">>, <<"5", "u11de0">>, <<"u11de0", "5">>,
                  <<"0", "5", "u11de0", "1">>}

\* every upper/lower-case spelling of a string
RECURSIVE Spellings(_)
Spellings(s) ==
    LET ToUpperChar(c) ==
            IF \E i \in 1..26 : Lower[i] = c
            THEN Upper[CHOOSE i \in 1..26 : Lower[i] = c]
            ELSE c
    IN  IF Len(s) = 0 THEN {<<>>}
        ELSE {<<c>> \o rest : c \in {ToLowerChar(s[1])[1], ToUpperChar(s[1])},
                              rest \in Spellings(Tail(s))}

InitClouds ==
    LET CoverTexts ==
            UNION {Spellings(CloudsDisplay(CloudsIter[k])) : k \in 1..Len(CloudsIter)}
                \cup {<<"O", "C", "C">>, <<"C", "L", "S">>, <<"B", "K", "N">>, <<>>}
    IN
        /\ pc = "clouds_from_str"
        /\ \E c \in CoverTexts, l \in LevelTexts : repr = c \o l
        /\ field = None
        /\ Idle

CloudsFromStrCall ==
    /\ pc = "clouds_from_str"
    /\ field' = clouds_from_str(repr)
    /\ pc' = "returned"
    /\ UNCHANGED <<repr, runVars>>

SpecClouds == InitClouds /\ [][CloudsFromStrCall]_vars

(***************************************************************************)
(* Specification SpecMetar: Metar::from_json applied to one report tree.   *)
(***************************************************************************)
InitMetar ==
    \E choices \in {ReportChoices} :
    /\ pc = "from_json"
    /\ \E s \in 1..Len(choices.station), t \in 1..Len(choices.time),
          m \in 1..Len(choices.measurements), a \in 1..Len(choices.altimeter),
          w \in 1..Len(choices.wx_codes), c \in 1..Len(choices.clouds),
          u \in 1..Len(choices.units) :
            report = Some(ReportTree(choices.station[s], choices.time[t],
                                   choices.measurements[m], choices.altimeter[a],
                                   choices.wx_codes[w], choices.clouds[c], choices.units[u]))
    /\ \E p \in 1..Len(PositionChoices) : cfg = ConfigAt(PositionChoices[p])
    /\ repr = <<>> /\ field = None /\ metar = None /\ taf = None /\ ret = None
    /\ utc_now = None
    /\ location = None /\ fetches = <<>> /\ resp = None /\ nearest = None
    /\ stdout = <<>> /\ wx_string = None

\* get_weather: Metar::from_json(&json, config).expect(...)
MetarFromJson ==
    /\ pc = "from_json"
    /\ report # None
    /\ metar' = Metar_from_json(report[1], cfg)
    /\ pc' = AfterDecode(metar')
    /\ UNCHANGED <<utc_now, ret, repr, field, report, cfg, taf, location, fetches, resp, nearest,
                   stdout, wx_string>>

SpecMetar == InitMetar /\ [][MetarFromJson]_vars

(***************************************************************************)
(* Specification SpecTaf: Taf::from_json applied to one forecast tree.     *)
(***************************************************************************)
\* what a forecast tree holds at time, start_time and end_time
\* the longest list drawn for wind_variable_direction, clouds, wx_codes and
\* forecast
MaxListLen == 3

TafChoices ==
    LET Dt(text) == Wrap("dt", JStr(text))
        issued == to_utc(parse_from_rfc3339(Text.Issue)[1])
        issue_timestamp == issued.days * 86400 + issued.secs
    IN  [time |->
             <<None, Some(Dt(Text.Issue)), Some(Dt(Text.BadMonth)), Some(Dt(Text.NoDate)),
               Some(JObj(NoKeys)), Some(JObj("dt" :> JInt(20240621))),
               Some(Dt(Text.IssueEast))>>,
         start |-> <<None, Some(Dt(Text.Start)), Some(Dt(Text.NoDate))>>,
         end |-> <<None, Some(Dt(Text.End)), Some(Dt(Text.BadMonth))>>,
         \* what Utc::now() returns: ten minutes, and a week and 0.7 s, after
         \* Text.Issue
         now |-> <<[secs |-> issue_timestamp + 600, nanos |-> 0],
                   [secs |-> issue_timestamp + 604800, nanos |-> 700000000]>>,
         \* taf_show_change_times, taf_age_marginal, taf_age_maximum
         taf_config |-> <<<<TRUE, 3600, 21600>>, <<FALSE, 3600, 21600>>>>]

ForecastChoices ==
    LET \* one entry of the `forecast` array
        GroupTree(type, start, end, probability, measurements, wx_codes, clouds) ==
            JObj(Entry("type", type) @@ Entry("start_time", start) @@ Entry("end_time", end)
                 @@ Entry("probability", probability) @@ measurements
                 @@ Entry("wx_codes", wx_codes) @@ Entry("clouds", clouds))
        \* the arrays built from the entries of a report and the period of a TAF
        Built(metar_choices, taf_choices) ==
        LET InitialGroup ==
                GroupTree(None, taf_choices.start[2], taf_choices.end[2], None,
                          metar_choices.measurements[5], metar_choices.wx_codes[2],
                          metar_choices.clouds[2])
            Block(type, probability, m) ==
                GroupTree(type, taf_choices.start[2], taf_choices.end[2], probability,
                          metar_choices.measurements[m], None, None)
            \* a block that names the unit of its wind speed
            BlockIn(type, m, wind_speed) ==
                GroupTree(type, taf_choices.start[2], taf_choices.end[2], None,
                          metar_choices.measurements[m]
                              @@ "units" :> JObj("wind_speed" :> JStr(wind_speed)),
                          None, None)
            GroupOf(type, probability) ==
                GroupTree(Some(JStr(type)), taf_choices.start[2], taf_choices.end[2],
                          probability, metar_choices.measurements[2],
                          metar_choices.wx_codes[3], metar_choices.clouds[3])
        IN  [forecast |->
                 <<None,
                   Some(JArr(<<>>)),
                   Some(JStr(Text.NoDate)),
                   Some(JArr(<<InitialGroup, GroupOf(Text.BECMG, None)>>)),
                   Some(JArr(<<GroupOf(Text.FM, None), GroupOf(Text.INTER, None),
                               GroupOf(Text.PROB, Some(Wrap("value", JInt(30)))),
                               GroupOf(Text.TEMPO, Some(Wrap("value", JInt(300)))),
                               GroupTree(None, None, None, None, NoKeys, None, None)>>))>>,
             \* the entries the arrays of up to MaxListLen entries are made of
             groups |->
                 <<Block(None, None, 5),
                   BlockIn(Some(JStr(Text.FM)), 2, Text.KPH),
                   Block(Some(JStr(Text.BECMG)), None, 3),
                   Block(Some(JStr(Text.TEMPO)), None, 4),
                   Block(Some(JStr(Text.PROB)), Some(Wrap("value", JInt(30))), 5),
                   Block(Some(JStr(Text.INTER)), None, 2),
                   Block(Some(JStr(ToLowercase(Text.BECMG))), None, 3),
                   Block(Some(JInt(7)), None, 1)>>]
    IN  Built(ReportChoices, TafChoices)

InitTaf ==
    \E choices \in {TafChoices}, forecasts \in {ForecastChoices} :
    LET TafTree(station, time, start, end, forecast) ==
            JObj(Entry("station", station) @@ Entry("time", time) @@ Entry("start_time", start)
                 @@ Entry("end_time", end) @@ Entry("forecast", forecast))
    IN
        /\ pc = "taf_from_json"
        /\ \/ \E s \in 1..Len(ReportChoices.station), t \in 1..Len(choices.time),
                 b \in 1..Len(choices.start), e \in 1..Len(choices.end),
                 f \in 1..Len(forecasts.forecast) :
                   report = Some(TafTree(ReportChoices.station[s], choices.time[t],
                                         choices.start[b], choices.end[e],
                                         forecasts.forecast[f]))
           \/ \E n \in 0..MaxListLen :
                 \E idx \in [1..n -> 1..Len(forecasts.groups)] :
                   report = Some(TafTree(ReportChoices.station[2], choices.time[2],
                                         choices.start[2], choices.end[2],
                                         Some(JArr([k \in 1..n |-> forecasts.groups[idx[k]]]))))
        /\ \E p \in 1..Len(PositionChoices), c \in 1..Len(choices.taf_config) :
              cfg = TafConfig(ConfigAt(PositionChoices[p]), choices.taf_config[c][1],
                              choices.taf_config[c][2], choices.taf_config[c][3])
        /\ repr = <<>> /\ field = None /\ metar = None /\ taf = None /\ ret = None
        /\ utc_now = None
        /\ location = None /\ fetches = <<>> /\ resp = None /\ nearest = None
        /\ stdout = <<>> /\ wx_string = None

TafFromJson ==
    /\ pc = "taf_from_json"
    /\ report # None
    /\ taf' = Taf_from_json(report[1], cfg)
    /\ pc' = "taf_returned"
    /\ UNCHANGED <<utc_now, ret, repr, field, report, cfg, metar, location, fetches, resp, nearest,
                   stdout, wx_string>>

\* Taf::colourise on the Taf that Taf::from_json returned
TafColourise ==
    /\ pc = "taf_returned"
    /\ taf # None
    /\ \E k \in 1..Len(TafChoices.now) :
          /\ utc_now' = Some(TafChoices.now[k])
          /\ ret' = Some(Taf_colourise(taf[1], cfg, TafChoices.now[k]))
    /\ pc' = "taf_coloured"
    /\ UNCHANGED <<repr, field, report, cfg, metar, taf, location, fetches, resp,
                   nearest, stdout, wx_string>>

SpecTaf == InitTaf /\ [][TafFromJson \/ TafColourise]_vars

(***************************************************************************)
(* Specification Spec: one run of main.                                    *)
(***************************************************************************)
\* Option<Value> of resp.json().await.ok(): None when the body is no JSON
Bodies ==
    LET GoodReport(station) ==
            ReportTree(Some(JStr(station)), ReportChoices.time[2],
                       ReportChoices.measurements[5], ReportChoices.altimeter[2],
                       ReportChoices.wx_codes[2], ReportChoices.clouds[2], None)
    IN  <<None,
          Some(GoodReport(Text.EDRK)),
          Some(GoodReport(Text.KJFK)),
          Some(ReportTree(None, ReportChoices.time[2], ReportChoices.measurements[1],
                          None, None, None, None)),
          Some(ReportTree(Some(JInt(7)), None, ReportChoices.measurements[1],
                          None, None, None, None)),
          Some(JObj("error" :> JStr(Text.Error)))>>

\* what one run of main meets
RunChoices ==
    LET issued == to_utc(parse_from_rfc3339(Text.Issue)[1])
        issue_timestamp == issued.days * 86400 + issued.secs
        lat == [m |-> 514, e |-> 1]
        lon == [m |-> 85, e |-> 1]
        Arguments(airfield, latitude, longitude) ==
            [airfield |-> airfield, latitude |-> latitude, longitude |-> longitude]
    IN  [\* the HTTP statuses a report fetch answers with
         statuses |-> {200, 204, 404},
         \* what get_nearest_station returns
         nearest |-> <<None, Some(Text.KJFK)>>,
         \* Args::parse(): the arguments are taken, or clap ends the process
         \* on --help, on --version and on an argument it rejects
         parse |-> {"parsed", "help", "version", "error"},
         args |->
             <<Arguments(None, None, None),
               Arguments(Some(Text.EDRK), Some(lat), None),
               Arguments(None, Some([m |-> -5140, e |-> 2]), Some([m |-> 80, e |-> 1])),
               Arguments(None, Some(lat), None),
               Arguments(None, None, Some(lon))>>,
         \* how far read_config_file gets before it reads the table
         load |-> {"HOME not set", "File::open failed", "read_to_string failed",
                   "parse::<Table> failed", "loaded"},
         \* the tables a configuration file parses to
         config_files |->
             <<JObj(NoKeys),
               JObj("position" :> Wrap("airfield", JStr(Text.KJFK))
                    @@ "age" :> JObj("age_maximum" :> JInt(3600)
                                     @@ "age_marginal" :> JInt(21600))
                    @@ "clouds" :> Wrap("cloud_minimum", JInt(60))),
               JObj("position" :> JObj("airfield" :> JStr(Text.KJFK)
                                       @@ "lat" :> JFloat(514, 1) @@ "lon" :> JFloat(85, 1))
                    @@ "wind" :> JStr(Text.NoDate)
                    @@ "temperature" :> Wrap("temp_minimum", JInt(25))
                    @@ "visibility" :> JObj("visibility_minimum" :> JStr(Text.NoDate)
                                            @@ "visibility_marginal" :> JInt(10000))),
               JObj("position" :> JObj("lat" :> JFloat(514, 1) @@ "lon" :> JInt(8))
                    @@ "wind" :> JObj("wind_maximum" :> JInt(5)
                                      @@ "gust_maximum" :> JFloat(55, 1)))>>,
         \* what Utc::now() returns: 3599.7 s, and an hour, after Text.Issue
         now |-> <<[secs |-> issue_timestamp + 3599, nanos |-> 700000000],
                   [secs |-> issue_timestamp + 3600, nanos |-> 0]>>]

Init ==
    /\ pc = "get_secrets"
    /\ repr = <<>> /\ field = None
    /\ Idle

\* main: get_secrets panics when AVWX_API_KEY is not set
GetSecrets ==
    /\ pc = "get_secrets"
    /\ \E key_set \in BOOLEAN : pc' = IF key_set THEN "get_config" ELSE "panicked"
    /\ UNCHANGED <<repr, field, runVars>>

\* get_config up to its first await: Args::parse(), read_config_file and
\* the position of the arguments over that of the file.  The line about
\* latitude and longitude is written whenever a latitude is given without an
\* airfield, the longitude given or not.  With an airfield the task then
\* waits in check_icao_code; otherwise get_config returns.
GetConfig ==
    LET ProvideBoth ==
            <<"P", "l", "e", "a", "s", "e", " ", "p", "r", "o", "v", "i", "d", "e",
              " ", "b", "o", "t", "h", " ", "L", "a", "t", "i", "t", "u", "d", "e",
              " ", "a", "n", "d", " ", "L", "o", "n", "g", "i", "t", "u", "d", "e",
              ".", " ", "D", "e", "f", "a", "u", "l", "t", "i", "n", "g", " ", "t",
              "o", " ", "g", "e", "o", "i", "p", ".", ".", ".">>
    IN
    /\ pc = "get_config"
    /\ \E choices \in {RunChoices} :
       \E parse \in choices.parse, load \in choices.load, a \in 1..Len(choices.args),
          f \in 1..Len(choices.config_files) :
        IF parse # "parsed"
        THEN \* clap writes the help and the version to standard output, an
             \* error to standard error, and calls std::process::exit; the
             \* text, which clap builds from the declaration of Args and the
             \* package, is not spelled out
             /\ stdout' = IF parse = "error" THEN stdout
                          ELSE Append(stdout, [clap |-> parse, rendered |-> None])
             /\ pc' = "exited"
             /\ cfg' = cfg
        ELSE IF load # "loaded"
        THEN \* `expect`: HOME is read whether or not a path was given
             pc' = "panicked" /\ UNCHANGED <<cfg, stdout>>
        ELSE LET args == choices.args[a]
                 config == read_config_file(choices.config_files[f])
                 position ==
                     IF args.airfield # None THEN Airfield(args.airfield[1])
                     ELSE IF args.latitude # None /\ args.longitude # None
                     THEN LatLong(args.latitude[1], args.longitude[1])
                     ELSE config.position
                 warned == args.airfield = None /\ args.latitude # None
             IN  /\ cfg' = [config EXCEPT !.position = position]
                 /\ stdout' = stdout \o (IF warned THEN <<Line(ProvideBoth)>> ELSE <<>>)
                 /\ pc' = IF position.kind = "Airfield" THEN "check_icao_code.send"
                          ELSE "request_wx"
    /\ UNCHANGED <<utc_now, ret, repr, field, report, metar, taf, location, fetches, resp, nearest,
                   wx_string>>

\* get_config resumed at an await of check_icao_code, first send() and then
\* resp.json(): a request that fails, a body that is no JSON and a body with
\* the key `error` make the code invalid.  The line is written and the
\* position reset once check_icao_code has returned false, after which
\* get_config returns.
CheckIcaoCode ==
    LET InvalidAirfield(icao) ==
            <<"I", "n", "v", "a", "l", "i", "d", " ", "a", "i", "r", "f", "i", "e",
              "l", "d", " ">>
            \o icao
            \o <<".", " ", "D", "e", "f", "a", "u", "l", "t", "i", "n", "g", " ", "t",
              "o", " ", "g", "e", "o", "i", "p", ".", ".", ".">>
    IN
    /\ pc \in {"check_icao_code.send", "check_icao_code.json"}
    /\ \E ok \in BOOLEAN :
        IF ~ok
        THEN /\ stdout' = Append(stdout, Line(InvalidAirfield(cfg.position.icao)))
             /\ cfg' = [cfg EXCEPT !.position = GeoIP]
             /\ pc' = "request_wx"
        ELSE /\ pc' = IF pc = "check_icao_code.send" THEN "check_icao_code.json"
                      ELSE "request_wx"
             /\ UNCHANGED <<cfg, stdout>>
    /\ UNCHANGED <<utc_now, ret, repr, field, report, metar, taf, location, fetches, resp, nearest,
                   wx_string>>

\* request_wx: config.position.get_location_str(), which waits in get_geoip
\* when the position is GeoIP and returns at once otherwise
RequestWx ==
    /\ pc = "request_wx"
    /\ IF cfg.position.kind = "GeoIP"
       THEN /\ location' = location
            /\ pc' = "request_wx.get_geoip.send"
       ELSE /\ location' = Some(LocationStr(cfg.position))
            /\ pc' = "send_api_call"
    /\ UNCHANGED <<utc_now, ret, repr, field, report, cfg, metar, taf, fetches, resp, nearest,
                   stdout, wx_string>>

\* get_location_str resumed at an await of get_geoip, first reqwest::get(..)
\* and then response.json(), for request_wx and for get_nearest_station.
\* get_geoip gives None when the request fails and when the body is no
\* JSON, reports no success or holds no numbers `lat` and `lon`; `expect`
\* then panics.
GetGeoip ==
    /\ pc \in {"request_wx.get_geoip.send", "request_wx.get_geoip.json",
               "get_nearest_station.get_geoip.send", "get_nearest_station.get_geoip.json"}
    /\ \E ok \in BOOLEAN :
        IF ~ok
        THEN pc' = "panicked" /\ location' = location
        ELSE CASE pc = "request_wx.get_geoip.send" ->
                      pc' = "request_wx.get_geoip.json" /\ location' = location
               [] pc = "request_wx.get_geoip.json" ->
                      /\ location' = Some(LocationStr(PositionChoices[3]))
                      /\ pc' = "send_api_call"
               [] pc = "get_nearest_station.get_geoip.send" ->
                      pc' = "get_nearest_station.get_geoip.json" /\ location' = location
               [] pc = "get_nearest_station.get_geoip.json" ->
                      pc' = "station.send" /\ location' = location
    /\ UNCHANGED <<utc_now, ret, repr, field, report, cfg, metar, taf, fetches, resp, nearest,
                   stdout, wx_string>>

\* request_wx resumed at the await of the first
\* send_api_call(position, secrets).await.ok()?
SendApiCall ==
    /\ pc = "send_api_call"
    /\ \E ok \in BOOLEAN, status \in RunChoices.statuses, b \in 1..Len(Bodies) :
        /\ fetches' = Append(fetches, [position |-> location[1], ok |-> ok,
                                       status |-> IF ok THEN status ELSE 0])
        /\ resp' = IF ok THEN Some([status |-> status, body |-> Bodies[b]]) ELSE None
        /\ pc' = AfterFirstFetch(ok, status)
    /\ UNCHANGED <<utc_now, ret, repr, field, report, cfg, metar, taf, location, nearest, stdout,
                   wx_string>>

\* request_wx resumed at the await of the body: resp.json().await.ok() of
\* the first response when its status is 200, and .json::<Value>().await.ok()
\* of the response to the request for the nearest station
ReadBody ==
    /\ pc \in {"read_body", "read_body_nearest"}
    /\ report' = resp[1].body
    /\ pc' = "get_weather"
    /\ UNCHANGED <<utc_now, ret, repr, field, cfg, metar, taf, location, fetches, resp, nearest,
                   stdout, wx_string>>

\* get_nearest_station: its own get_location_str, then resumed at each of
\* its four awaits: send() and json() of the station request, send() and
\* json() of the request for the stations near the coordinates.  `.ok()?`
\* and the `?` on the entries of the bodies return None; the last body
\* names the station.
GetNearestStation ==
    /\ pc \in {"get_nearest_station", "station.send", "station.json",
               "station_near.send", "station_near.json"}
    /\ \E ok \in BOOLEAN, n \in 1..Len(RunChoices.nearest) :
        CASE pc = "get_nearest_station" ->
                 /\ nearest' = nearest
                 /\ pc' = IF cfg.position.kind = "GeoIP"
                          THEN "get_nearest_station.get_geoip.send"
                          ELSE "station.send"
          [] pc = "station_near.json" ->
                 /\ nearest' = RunChoices.nearest[n]
                 /\ pc' = IF nearest' = None THEN "no_nearest_station"
                          ELSE "send_api_call_nearest"
          [] OTHER ->
                 /\ nearest' = nearest
                 /\ pc' = IF ~ok THEN "no_nearest_station"
                          ELSE IF pc = "station.send" THEN "station.json"
                          ELSE IF pc = "station.json" THEN "station_near.send"
                          ELSE "station_near.json"
    /\ UNCHANGED <<utc_now, ret, repr, field, report, cfg, metar, taf, location, fetches, resp,
                   stdout, wx_string>>

\* request_wx: println!("No nearest station..."); None
NoNearestStation ==
    /\ pc = "no_nearest_station"
    /\ stdout' = Append(stdout,
                        Line(<<"N", "o", " ", "n", "e", "a", "r", "e", "s", "t", " ",
                               "s", "t", "a", "t", "i", "o", "n", ".", ".", ".">>))
    /\ report' = None
    /\ pc' = "get_weather"
    /\ UNCHANGED <<utc_now, ret, repr, field, cfg, metar, taf, location, fetches, resp, nearest,
                   wx_string>>

\* request_wx resumed at the await of
\* send_api_call(nearest_station_code, secrets).await.ok()?: None on a
\* request that fails, the await of the body otherwise; the status is not
\* looked at
SendApiCallNearest ==
    /\ pc = "send_api_call_nearest"
    /\ \E ok \in BOOLEAN, status \in RunChoices.statuses, b \in 1..Len(Bodies) :
        /\ fetches' = Append(fetches, [position |-> nearest[1], ok |-> ok,
                                       status |-> IF ok THEN status ELSE 0])
        /\ resp' = IF ok THEN Some([status |-> status, body |-> Bodies[b]]) ELSE None
        /\ pc' = IF ok THEN "read_body_nearest" ELSE "get_weather"
    /\ UNCHANGED <<utc_now, ret, repr, field, report, cfg, metar, taf, location, nearest, stdout,
                   wx_string>>

\* get_weather: request_wx(config, secrets).await.expect("Weather request failed.")
ExpectWeather ==
    /\ pc = "get_weather"
    /\ pc' = IF report = None THEN "panicked" ELSE "from_json"
    /\ UNCHANGED <<repr, field, runVars>>

\* get_weather: metar.colorise(config); Utc::now() is called for the
\* timestamp field
Colorise ==
    /\ pc = "colorise"
    /\ metar # None
    /\ \E k \in 1..Len(RunChoices.now) :
          /\ wx_string' = Some(Metar_colorise(metar[1], cfg, RunChoices.now[k]))
          /\ utc_now' = IF \E i \in 1..Len(metar[1].fields) :
                               metar[1].fields[i].tag = "TimeStamp"
                        THEN Some(RunChoices.now[k])
                        ELSE utc_now
    /\ pc' = "println"
    /\ UNCHANGED <<ret, repr, field, report, cfg, metar, taf, location, fetches, resp,
                   nearest, stdout>>

\* main: println!("{wx_string}")
Println ==
    LET ReportLine(s) ==
            LET text[k \in 0..Len(s)] == IF k = 0 THEN <<>> ELSE text[k - 1] \o s[k].text
            IN  [text |-> text[Len(s)], rendered |-> Some(s)]
    IN
        /\ pc = "println"
        /\ stdout' = Append(stdout, ReportLine(wx_string[1]))
        /\ pc' = "done"
        /\ UNCHANGED <<utc_now, ret, repr, field, report, cfg, metar, taf, location, fetches, resp,
                       nearest, wx_string>>

Spec ==
    Init /\ [][
        \/ GetSecrets
        \/ GetConfig
        \/ CheckIcaoCode
        \/ RequestWx
        \/ GetGeoip
        \/ SendApiCall
        \/ ReadBody
        \/ GetNearestStation
        \/ NoNearestStation
        \/ SendApiCallNearest
        \/ ExpectWeather
        \/ MetarFromJson
        \/ Colorise
        \/ Println
    ]_vars

(***************************************************************************)
(* Specification SpecParts: the extraction statements of Metar::from_json  *)
(* and the colouring functions of WxField::colourise, each applied on its  *)
(* own to one input.                                                       *)
(***************************************************************************)
\* what the inputs of the parts are drawn from
PartChoices ==
    LET Repr(text) == Wrap("repr", JStr(text))
        Value(v) == Some(Wrap("value", v))
        Odd == <<Some(JObj(NoKeys)), Value(JStr(Text.NoDate))>>
    IN  [not_array |-> <<None, Some(JStr(Text.NoDate)), Some(JObj(NoKeys))>>,
         directions |->
             <<Wrap("value", JInt(80)), Wrap("value", JInt(150)), Wrap("value", JInt(350)),
               JObj(NoKeys), Wrap("value", JStr(Text.NoDate))>>,
         clouds |->
             <<Repr(Text.Sct050), Repr(Text.Ovc200), Repr(Text.Occ33),
               JObj(NoKeys), Wrap("repr", JInt(7))>>,
         wx_codes |->
             <<Repr(Text.LightRain), Repr(Text.HeavyTsRa), Repr(Text.XX),
               JObj(NoKeys), Wrap("repr", JInt(7))>>,
         altimeter |->
             <<None, Value(JInt(1013)), Value(JInt(0)), Value(JFloat(2992, 2)),
               Value(JFloat(10130, 1)), Value(JFloat(29921, 3)), Value(JFloat(30125, 3)),
               Value(JFloat(1005, 3)), Some(JInt(1013))>> \o Odd,
         wind_direction |-> <<None, Value(JInt(100)), Value(JFloat(1005, 1))>> \o Odd,
         wind_speed |-> <<None, Value(JInt(10)), Value(JFloat(105, 1))>> \o Odd,
         wind_gust |-> <<None, Value(JInt(25)), Some(JInt(25))>> \o Odd,
         units |->
             <<None,
               Some(JStr(Text.InHg)),
               Some(JObj(NoKeys)),
               Some(JObj("altimeter" :> JStr(Text.InHg) @@ "wind_speed" :> JStr(Text.Mph))),
               Some(JObj("altimeter" :> JStr(Text.Furlong) @@ "wind_speed" :> JInt(7)))>>,
         unit_altimeter |->
             <<None, Some(JStr(Text.InHg)), Some(JStr(Text.HPA)), Some(JStr(Text.Furlong)),
               Some(JInt(7))>>,
         unit_altitude |->
             <<None, Some(JStr(Text.MUpper)), Some(JStr(Text.Furlong)), Some([t |-> "null"])>>,
         unit_wind_speed |->
             <<None, Some(JStr(Text.Mph)), Some(JStr(Text.KPH)), Some(JStr(Text.Furlong)),
               Some(JInt(7)), Some(JStr(Text.KelvinPh))>>,
         unit_temperature |->
             <<None, Some(JStr(Text.F)), Some(JStr(Text.Furlong)), Some(JInt(7))>>,
         unit_visibility |->
             <<None, Some(JStr(Text.Mi)), Some(JStr(Text.NM)), Some(JStr(Text.Km)),
               Some(JStr(Text.Furlong)), Some(JStr(Text.KelvinM))>>,
         vis |-> {-5, 0, 1000, 1499, 1500, 1501, 2000, 4999, 5000, 5001, 9999},
         visibility_bounds |-> {<<1500, 5000>>, <<5000, 1500>>, <<2000, 2000>>},
         alt |-> {0, 5, 6, 7, 14, 15, 16, 50, 200},
         cloud_bounds |-> {<<6, 15>>, <<15, 6>>, <<6, 6>>},
         temp |-> {-12, -1, 0, 1, 3, 4, 20},
         dewpoint |-> {-15, -3, 0, 1, 17, 25},
         temperature_bounds |-> {<<0, 3>>, <<3, 0>>, <<-2, 4>>},
         temperature_unit |-> {"C", "F"},
         direction |-> {0, 90, 350},
         strength |-> {0, 5, 15, 16, 30},
         gusts |-> {-5, 0, 1, 15, 25, 26, 40},
         wind_bounds |-> {<<15, 10>>, <<10, 15>>, <<0, 0>>},
         speed_unit |-> {"Kt", "Mph"},
         datetime |-> <<Text.Issue, Text.Start, Text.IssueEast, Text.IssueHalf>>,
         \* the display strings of the five enums in every letter case, and
         \* strings that are no display string in any letter case
         enum_texts |->
             UNION {Spellings(CloudsDisplay(CloudsIter[k])) : k \in 1..Len(CloudsIter)}
             \cup UNION {Spellings(WxCodeDisplay(WxCodeIter[k])) : k \in 1..Len(WxCodeIter)}
             \cup UNION {Spellings(WxCodeDescriptionDisplay(WxCodeDescriptionIter[k])) :
                            k \in 1..Len(WxCodeDescriptionIter)}
             \cup UNION {Spellings(WxCodeProximityDisplay(WxCodeProximityIter[k])) :
                            k \in 1..Len(WxCodeProximityIter)}
             \cup {WxCodeIntensityDisplay(WxCodeIntensityVariants[k]) :
                      k \in 1..Len(WxCodeIntensityVariants)}
             \cup {<<"X", "X">>, <<"B", "K", "N">>, <<"R", "A", "A">>, <<" ">>,
                   <<"+", "+">>, <<"R", "A", "|", "D", "Z">>,
                   <<"S", "u212a", "C">>, <<"B", "R", "u212a">>, <<"u0130", "C">>,
                   <<"u212a", "C">>},
         age_bounds |-> {<<3600, 21600>>, <<21600, 3600>>, <<3600, 3600>>, <<-120, 21600>>},
         \* what Utc::now() returns: so many seconds after Text.Issue, on the
         \* second, 0.7 s after it and one nanosecond before the next
         now |-> LET issued == to_utc(parse_from_rfc3339(Text.Issue)[1])
                 IN  {[secs |-> issued.days * 86400 + issued.secs + age, nanos |-> nanos] :
                         age \in {-60, 0, 3599, 3600, 3601, 21599, 21600, 21601, 90000},
                         nanos \in {0, 700000000, 999999999}}]

InitParts ==
    \E choices \in {PartChoices} :
    /\ metar = None /\ taf = None /\ location = None
    /\ fetches = <<>> /\ resp = None /\ nearest = None /\ stdout = <<>>
    /\ wx_string = None /\ ret = None
    /\ utc_now = None
    /\ \/ /\ pc = "get_wind_var"
          /\ repr = <<>>
          /\ field = None /\ cfg = ConfigDefault
          /\ \/ \E k \in 1..Len(choices.not_array) :
                    report = Some(JObj(Entry("wind_variable_direction",
                                             choices.not_array[k])))
             \/ \E n \in 0..MaxListLen :
                    \E idx \in [1..n -> 1..Len(choices.directions)] :
                        report = Some(JObj("wind_variable_direction" :>
                                     JArr([k \in 1..n |-> choices.directions[idx[k]]])))
       \/ /\ pc = "get_clouds_from_json"
          /\ repr = <<>>
          /\ field = None /\ cfg = ConfigDefault
          /\ \/ \E k \in 1..Len(choices.not_array) :
                    report = Some(JObj(Entry("clouds", choices.not_array[k])))
             \/ \E n \in 0..MaxListLen :
                    \E idx \in [1..n -> 1..Len(choices.clouds)] :
                        report = Some(JObj("clouds" :>
                                     JArr([k \in 1..n |-> choices.clouds[idx[k]]])))
       \/ /\ pc = "get_wxcodes_from_json"
          /\ repr = <<>>
          /\ field = None /\ cfg = ConfigDefault
          /\ \/ \E k \in 1..Len(choices.not_array) :
                    report = Some(JObj(Entry("wx_codes", choices.not_array[k])))
             \/ \E n \in 0..MaxListLen :
                    \E idx \in [1..n -> 1..Len(choices.wx_codes)] :
                        report = Some(JObj("wx_codes" :>
                                     JArr([k \in 1..n |-> choices.wx_codes[idx[k]]])))
       \/ /\ pc = "get_qnh"
          /\ repr = <<>>
          /\ field = None /\ cfg = ConfigDefault
          /\ \E a \in 1..Len(choices.altimeter), u \in 1..Len(choices.units) :
                report = Some(JObj(Entry("altimeter", choices.altimeter[a])
                                   @@ Entry("units", choices.units[u])))
       \/ /\ pc = "get_winds"
          /\ repr = <<>>
          /\ field = None /\ cfg = ConfigDefault
          /\ \E d \in 1..Len(choices.wind_direction),
                s \in 1..Len(choices.wind_speed),
                g \in 1..Len(choices.wind_gust), u \in 1..Len(choices.units) :
                report = Some(JObj(Entry("wind_direction", choices.wind_direction[d])
                                   @@ Entry("wind_speed", choices.wind_speed[s])
                                   @@ Entry("wind_gust", choices.wind_gust[g])
                                   @@ Entry("units", choices.units[u])))
       \/ /\ pc = "Units::from_json"
          /\ repr = <<>>
          /\ field = None /\ cfg = ConfigDefault
          /\ \/ \E u \in 1..2 : report = Some(JObj(Entry("units", choices.units[u])))
             \/ \E p \in 1..Len(choices.unit_altimeter),
                   a \in 1..Len(choices.unit_altitude),
                   w \in 1..Len(choices.unit_wind_speed),
                   t \in 1..Len(choices.unit_temperature),
                   v \in 1..Len(choices.unit_visibility) :
                   report = Some(JObj("units" :> JObj(
                       Entry("altimeter", choices.unit_altimeter[p])
                       @@ Entry("altitude", choices.unit_altitude[a])
                       @@ Entry("wind_speed", choices.unit_wind_speed[w])
                       @@ Entry("temperature", choices.unit_temperature[t])
                       @@ Entry("visibility", choices.unit_visibility[v]))))
       \/ /\ pc = "colourise_visibility"
          /\ repr = <<>>
          /\ report = None
          /\ \E vis \in choices.vis : field = Some(VisibilityField(vis))
          /\ \E b \in choices.visibility_bounds :
                cfg = [ConfigDefault EXCEPT !.visibility_minimum = b[1],
                                            !.visibility_marginal = b[2]]
       \/ /\ pc = "colourise_clouds"
          /\ repr = <<>>
          /\ report = None
          /\ \E k \in 1..Len(CloudsIter), alt \in choices.alt :
                field = Some(CloudsField(CloudsIter[k], alt))
          /\ \E b \in choices.cloud_bounds :
                cfg = [ConfigDefault EXCEPT !.cloud_minimum = b[1],
                                            !.cloud_marginal = b[2]]
       \/ /\ pc = "WxField::colourise"
          /\ repr = <<>>
          /\ report = None
          /\ \E temp \in choices.temp, dewpoint \in choices.dewpoint,
                unit \in choices.temperature_unit :
                field = Some(TemperatureField(temp, dewpoint, unit))
          /\ \E b \in choices.temperature_bounds :
                cfg = [ConfigDefault EXCEPT !.temp_minimum = b[1],
                                            !.spread_minimum = b[2]]
       \/ /\ pc = "WxField::colourise"
          /\ repr = <<>>
          /\ report = None
          /\ \E direction \in choices.direction, strength \in choices.strength,
                gusts \in choices.gusts, unit \in choices.speed_unit :
                field = Some(WindField(direction, strength, gusts, unit))
          /\ \E b \in choices.wind_bounds :
                cfg = [ConfigDefault EXCEPT !.wind_maximum = b[1],
                                            !.gust_maximum = b[2]]
       \/ /\ pc = "WxField::colourise"
          /\ repr = <<>>
          /\ report = None
          /\ \E k \in 1..Len(choices.datetime) :
                field = Some(TimeStampField(parse_from_rfc3339(choices.datetime[k])[1]))
          /\ \E b \in choices.age_bounds :
                cfg = [ConfigDefault EXCEPT !.age_marginal = b[1], !.age_maximum = b[2]]
       \/ /\ pc = "get_time_color"
          /\ repr = <<>>
          /\ report = None
          /\ \E k \in 1..Len(choices.datetime) :
                field = Some(TimeStampField(parse_from_rfc3339(choices.datetime[k])[1]))
          /\ \E b \in choices.age_bounds, show \in BOOLEAN :
                cfg = TafConfig(ConfigDefault, show, b[1], b[2])
       \/ /\ pc \in {"Clouds::from_str", "WxCode::from_str", "WxCodeIntensity::from_str",
                      "WxCodeDescription::from_str", "WxCodeProximity::from_str"}
          /\ repr \in choices.enum_texts
          /\ report = None /\ field = None /\ cfg = ConfigDefault
       \/ /\ pc \in {"Clouds::get_regex", "WxCode::get_regex"}
          /\ repr = <<>>
          /\ report = None /\ field = None /\ cfg = ConfigDefault

\* Metar::from_json: `if let Some(wind_var) = get_wind_var(json)`
GetWindVar ==
    /\ pc = "get_wind_var"
    /\ ret' = Some(get_wind_var(report[1]))
    /\ pc' = "wind_var_returned"
    /\ UNCHANGED <<utc_now, repr, field, report, cfg, metar, taf, location, fetches, resp,
                   nearest, stdout, wx_string>>

\* Metar::from_json: get_clouds_from_json(json)
GetCloudsFromJson ==
    /\ pc = "get_clouds_from_json"
    /\ ret' = Some(get_clouds_from_json(report[1]))
    /\ pc' = "clouds_returned"
    /\ UNCHANGED <<utc_now, repr, field, report, cfg, metar, taf, location, fetches, resp,
                   nearest, stdout, wx_string>>

\* Metar::from_json: get_wxcodes_from_json(json)
GetWxcodesFromJson ==
    /\ pc = "get_wxcodes_from_json"
    /\ ret' = Some(get_wxcodes_from_json(report[1]))
    /\ pc' = "wxcodes_returned"
    /\ UNCHANGED <<utc_now, repr, field, report, cfg, metar, taf, location, fetches, resp,
                   nearest, stdout, wx_string>>

\* Metar::from_json: `let units = Units::from_json(json)` and
\* `if let Some(qnh) = get_qnh(json, units)`
GetQnh ==
    /\ pc = "get_qnh"
    /\ ret' = Some(get_qnh(report[1], Units_from_json(report[1])))
    /\ pc' = "qnh_returned"
    /\ UNCHANGED <<utc_now, repr, field, report, cfg, metar, taf, location, fetches, resp,
                   nearest, stdout, wx_string>>

\* Metar::from_json: `let units = Units::from_json(json)` and
\* `if let Some(wind) = get_winds(json, units)`
GetWinds ==
    /\ pc = "get_winds"
    /\ ret' = Some(get_winds(report[1], Units_from_json(report[1])))
    /\ pc' = "winds_returned"
    /\ UNCHANGED <<utc_now, repr, field, report, cfg, metar, taf, location, fetches, resp,
                   nearest, stdout, wx_string>>

\* Metar::from_json: `let units = Units::from_json(json)`
UnitsFromJson ==
    /\ pc = "Units::from_json"
    /\ ret' = Some(Units_from_json(report[1]))
    /\ pc' = "units_returned"
    /\ UNCHANGED <<utc_now, repr, field, report, cfg, metar, taf, location, fetches, resp,
                   nearest, stdout, wx_string>>

\* WxField::colourise: WxField::Visibility(vis) => colourise_visibility(*vis, config)
ColouriseVisibility ==
    /\ pc = "colourise_visibility"
    /\ ret' = Some(colourise_visibility(field[1].vis, cfg))
    /\ pc' = "visibility_coloured"
    /\ UNCHANGED <<utc_now, repr, field, report, cfg, metar, taf, location, fetches, resp,
                   nearest, stdout, wx_string>>

\* WxField::colourise: WxField::Clouds(cloud, alt) => colourise_clouds(cloud, *alt, config)
ColouriseClouds ==
    /\ pc = "colourise_clouds"
    /\ ret' = Some(colourise_clouds(field[1].cover, field[1].level, cfg))
    /\ pc' = "clouds_coloured"
    /\ UNCHANGED <<utc_now, repr, field, report, cfg, metar, taf, location, fetches, resp,
                   nearest, stdout, wx_string>>

\* WxField::colourise on a field of any other variant; Utc::now() is read by
\* the TimeStamp arm alone
WxFieldColourise ==
    /\ pc = "WxField::colourise"
    /\ \E now \in PartChoices.now :
          /\ utc_now' = IF field[1].tag = "TimeStamp" THEN Some(now) ELSE None
          /\ ret' = Some(WxField_colourise(field[1], cfg, now))
    /\ pc' = "field_coloured"
    /\ UNCHANGED <<repr, field, report, cfg, metar, taf, location, fetches, resp,
                   nearest, stdout, wx_string>>

\* Taf::colourise: get_time_color(&self.issue_time, config), the instant
\* held as the payload of a TimeStamp field
GetTimeColor ==
    /\ pc = "get_time_color"
    /\ \E now \in PartChoices.now :
          /\ utc_now' = Some(now)
          /\ ret' = Some(get_time_color(field[1].datetime, cfg, now))
    /\ pc' = "time_color_returned"
    /\ UNCHANGED <<repr, field, report, cfg, metar, taf, location, fetches, resp,
                   nearest, stdout, wx_string>>

\* <Enum as FromStr>::from_str(s).ok() for the five enums
FromStr ==
    /\ \/ /\ pc = "Clouds::from_str"
          /\ ret' = Some(CloudsFromStr(repr))
          /\ pc' = "Clouds::from_str.returned"
       \/ /\ pc = "WxCode::from_str"
          /\ ret' = Some(WxCodeFromStr(repr))
          /\ pc' = "WxCode::from_str.returned"
       \/ /\ pc = "WxCodeIntensity::from_str"
          /\ ret' = Some(WxCodeIntensityFromStr(repr))
          /\ pc' = "WxCodeIntensity::from_str.returned"
       \/ /\ pc = "WxCodeDescription::from_str"
          /\ ret' = Some(WxCodeDescriptionFromStr(repr))
          /\ pc' = "WxCodeDescription::from_str.returned"
       \/ /\ pc = "WxCodeProximity::from_str"
          /\ ret' = Some(WxCodeProximityFromStr(repr))
          /\ pc' = "WxCodeProximity::from_str.returned"
    /\ UNCHANGED <<utc_now, repr, field, report, cfg, metar, taf, location, fetches, resp,
                   nearest, stdout, wx_string>>

\* Clouds::get_regex() and WxCode::get_regex()
GetRegex ==
    /\ \/ /\ pc = "Clouds::get_regex"
          /\ ret' = Some(CloudsGetRegex)
          /\ pc' = "Clouds::get_regex.returned"
       \/ /\ pc = "WxCode::get_regex"
          /\ ret' = Some(WxCodeGetRegex)
          /\ pc' = "WxCode::get_regex.returned"
    /\ UNCHANGED <<utc_now, repr, field, report, cfg, metar, taf, location, fetches, resp,
                   nearest, stdout, wx_string>>

SpecParts ==
    InitParts /\ [][
        \/ GetWindVar
        \/ GetCloudsFromJson
        \/ GetWxcodesFromJson
        \/ GetQnh
        \/ GetWinds
        \/ UnitsFromJson
        \/ ColouriseVisibility
        \/ ColouriseClouds
        \/ WxFieldColourise
        \/ GetTimeColor
        \/ FromStr
        \/ GetRegex
    ]_vars

(***************************************************************************)
(* Properties of the token grammars.                                       *)
(***************************************************************************)
\* C1: for every intensity, descriptor, code of the closed set and proximity,
\* wxcode_from_str applied to intensity ++ descriptor ++ code ++ proximity
\* returns a field carrying exactly those four components.
C1_WxRoundTrip ==
    pc = "returned" =>
        \A i \in Range(WxCodeIntensityVariants), d \in Range(WxCodeDescriptionIter),
           c \in Range(WxCodeIter), p \in Range(WxCodeProximityIter) :
            repr = WxToken(i, d, WxCodeDisplay(c), p)
                => field = Some(WxCodeField(c, i, p, d))

\* C2: a token intensity ++ descriptor ++ c ++ proximity whose c is a
\* two-letter string outside the closed code set decodes to no field.
C2_UnknownCodeRejected ==
    pc = "returned" =>
        \A i \in Range(WxCodeIntensityVariants), d \in Range(WxCodeDescriptionIter),
           c \in UnknownCodes, p \in Range(WxCodeProximityIter) :
            repr = WxToken(i, d, c, p) => field = None

\* C8: every upper/lower-case spelling of a coverage code, followed by the
\* same digits, decodes to the same field as the upper-case spelling.
C8_CloudsCaseInsensitive ==
    pc = "returned" =>
        \A v \in Range(CloudsIter), l \in LevelTexts :
            \A sp \in Spellings(CloudsDisplay(v)) :
                repr = sp \o l => field = clouds_from_str(CloudsDisplay(v) \o l)

\* C9: for each of the five Clouds variants v, display(v) fed to
\* clouds_from_str gives a cloud-layer field of coverage v and height 0.
C9_CoverageRoundTrip ==
    pc = "returned" =>
        \A v \in Range(CloudsIter) :
            repr = CloudsDisplay(v) => field = Some(CloudsField(v, 0))

C9_Witness ==
    /\ pc = "returned"
    /\ repr = <<"B", "R", "K">>
    /\ field = Some(CloudsField("Brk", 0))

AllAsciiDigits(l) == \A k \in 1..Len(l) : IsAsciiDigit(l[k])

\* the value of a non-empty string of ASCII digits is at most i64::MAX
FitsI64(l) ==
    LET t == StripLeadingZeros(l)
    IN  Len(t) < Len(I64MaxDigits)
            \/ (Len(t) = Len(I64MaxDigits) /\ ~DigitsLess(I64MaxDigits, t))

\* one of the five coverage codes, as displayed, occurs in the token
ContainsCoverage(s) ==
    \E v \in Range(CloudsIter), pos \in 1..Len(s) : IsPrefixAt(CloudsDisplay(v), s, pos)

\* C10: a coverage code followed by decimal digits decodes to the height
\* equal to the integer value of the digits (leading zeros ignored); without
\* digits the height is 0; without a valid coverage code there is no field.
C10_CloudHeight ==
    pc = "returned" =>
        /\ \A v \in Range(CloudsIter), l \in LevelTexts :
              repr = CloudsDisplay(v) \o l /\ AllAsciiDigits(l) =>
                  /\ field # None
                  /\ field[1].cover = v
                  /\ IF Len(l) = 0 THEN field[1].level = 0
                     ELSE DecimalDigits(field[1].level) = StripLeadingZeros(l)
        /\ ~ContainsCoverage(repr) => field = None

\* the decimal digits outside ASCII that the pattern takes for digits, among
\* the characters of LevelTexts: ARABIC-INDIC DIGIT THREE and FIVE and GARAY
\* DIGIT ZERO (TOLONG SIKI DIGIT ZERO, new in Unicode 17.0, is not one)
WideDigits == {"u0663", "u0665", "u10d40"}

\* the digits that follow the coverage code: the characters of l up to the
\* first one that the pattern does not take for a digit
RECURSIVE DigitsOf(_)
DigitsOf(l) ==
    IF Len(l) = 0 \/ ~(IsAsciiDigit(l[1]) \/ l[1] \in WideDigits) THEN <<>>
    ELSE <<l[1]>> \o DigitsOf(Tail(l))

\* C10 as amended: the digits are the characters after the code that the
\* pattern takes for decimal digits; the height is their integer value when
\* they are ASCII digits whose value is at most i64::MAX; it is 0 when there
\* are no digits, when the value is above i64::MAX or when a digit is not ASCII.
C10_CloudHeightAmended ==
    pc = "returned" =>
        /\ \A v \in Range(CloudsIter), l \in LevelTexts :
              repr = CloudsDisplay(v) \o l =>
                  /\ field # None
                  /\ field[1].cover = v
                  /\ IF Len(DigitsOf(l)) > 0 /\ AllAsciiDigits(DigitsOf(l))
                        /\ FitsI64(DigitsOf(l))
                     THEN DecimalDigits(field[1].level) = StripLeadingZeros(DigitsOf(l))
                     ELSE field[1].level = 0
        /\ ~ContainsCoverage(repr) => field = None

C10_Witness ==
    /\ pc = "returned"
    /\ repr = <<"S", "C", "T", "0", "5", "0">>
    /\ field = Some(CloudsField("Sct", 50))

(***************************************************************************)
(* Properties of the report decoders.                                      *)
(***************************************************************************)
\* Metar::from_json has returned
MetarDecoded == pc \in {"colorise", "panicked"} /\ report # None

StationAbsent == Get(report[1], "station") = None

\* C3: Metar::from_json returns no report whenever the key `station` is
\* absent from the tree.
C3_StationRequired ==
    MetarDecoded /\ StationAbsent => metar = None

\* C3 as amended: Metar::from_json returns no report exactly when the key
\* `station` is present and holds no string; when the key is absent it returns
\* a Metar whose station identifier is the empty string.
C3_StationAmended ==
    MetarDecoded =>
        /\ metar = None <=> (~StationAbsent /\ report[1].v["station"].t # "str")
        /\ StationAbsent => (metar # None /\ metar[1].icao_code = <<>>)
        /\ (~StationAbsent /\ metar # None) => metar[1].icao_code = report[1].v["station"].v

C3_Witness ==
    /\ MetarDecoded
    /\ StationAbsent
    /\ metar # None
    /\ metar[1].icao_code = <<>>
    /\ Len(metar[1].fields) > 0

\* the position of a field kind in an order of kinds
RankIn(order, tag) == CHOOSE k \in 1..Len(order) : order[k] = tag

\* the fields follow the order: no field of a later kind before an earlier kind
InOrder(fields, order) ==
    \A i \in 1..Len(fields), j \in 1..Len(fields) :
        i < j => RankIn(order, fields[i].tag) <= RankIn(order, fields[j].tag)

ClaimedFieldOrder ==
    <<"TimeStamp", "Wind", "WindVariability", "Visibility", "Temperature", "Qnh",
      "Clouds", "WxCode", "Remarks">>

AmendedFieldOrder ==
    <<"TimeStamp", "Wind", "WindVariability", "Visibility", "Temperature", "Qnh",
      "WxCode", "Clouds", "Remarks">>

\* C7: the fields of a decoded report are in the order timestamp, wind, wind
\* variability, visibility, temperature, altimeter, cloud layers, weather
\* phenomena, remarks: every cloud layer precedes every weather phenomenon.
C7_FieldOrder ==
    MetarDecoded /\ metar # None => InOrder(metar[1].fields, ClaimedFieldOrder)

\* C7 as amended: the order is timestamp, wind, wind variability, visibility,
\* temperature, altimeter, weather phenomena, cloud layers, remarks: every
\* weather phenomenon precedes every cloud layer.
C7_FieldOrderAmended ==
    MetarDecoded /\ metar # None => InOrder(metar[1].fields, AmendedFieldOrder)

C7_Witness ==
    /\ MetarDecoded
    /\ metar # None
    /\ \A k \in 1..Len(AmendedFieldOrder) :
          \E i \in 1..Len(metar[1].fields) : metar[1].fields[i].tag = AmendedFieldOrder[k]
    /\ Cardinality({i \in 1..Len(metar[1].fields) : metar[1].fields[i].tag = "Clouds"}) = 2
    /\ Cardinality({i \in 1..Len(metar[1].fields) : metar[1].fields[i].tag = "WxCode"}) = 2

\* the texts of the inputs that are RFC 3339 instants
InstantTexts == {Text.Issue, Text.Start, Text.End, Text.IssueEast}

\* the tree has a string at key.dt and it is an instant
HasInstant(tree, key) ==
    /\ key \in DOMAIN tree.v
    /\ tree.v[key].t = "obj"
    /\ "dt" \in DOMAIN tree.v[key].v
    /\ tree.v[key].v["dt"].t = "str"
    /\ tree.v[key].v["dt"].v \in InstantTexts

HasStation(tree) == "station" \in DOMAIN tree.v /\ tree.v["station"].t = "str"

TafDecoded == pc = "taf_returned" /\ report # None

\* C4: Taf::from_json returns no forecast whenever the station, the issue
\* time, the validity start or the validity end is absent or not parseable.
C4_TafRequiredParts ==
    (/\ TafDecoded
     /\ \/ ~HasStation(report[1])
        \/ ~HasInstant(report[1], "time")
        \/ ~HasInstant(report[1], "start_time")
        \/ ~HasInstant(report[1], "end_time"))
        => taf = None

C4_Witness ==
    /\ TafDecoded
    /\ HasStation(report[1])
    /\ HasInstant(report[1], "start_time")
    /\ HasInstant(report[1], "end_time")
    /\ "time" \in DOMAIN report[1].v
    /\ ~HasInstant(report[1], "time")
    /\ "forecast" \in DOMAIN report[1].v
    /\ report[1].v["forecast"].t = "arr"
    /\ taf = None

(***************************************************************************)
(* Properties of the run.                                                  *)
(***************************************************************************)
\* C5: within one call of request_wx the report fetch is issued at most
\* twice, and the second fetch only after the first one returned a response
\* whose status is not 200 and the nearest-station lookup returned a code.
C5_FallbackProtocol ==
    /\ Len(fetches) <= 2
    /\ (Len(fetches) = 2) =>
          /\ fetches[1].ok
          /\ fetches[1].status # 200
          /\ nearest # None
          /\ fetches[2].position = nearest[1]
    /\ (pc = "send_api_call_nearest") =>
          (Len(fetches) = 1 /\ fetches[1].ok /\ fetches[1].status # 200)

C5_Witness ==
    /\ Len(fetches) = 2
    /\ fetches[1].status = 404
    /\ fetches[2].position = Text.KJFK
    /\ pc = "done"

\* C6: when request_wx yields no report or Metar::from_json yields no Metar,
\* colourising and printing are not reached and no report is written to
\* standard output; the report is printed only after a Metar has been built.
C6_NoReportOnFailure ==
    /\ pc \in {"colorise", "println", "done"} => (report # None /\ metar # None)
    /\ \A k \in 1..Len(stdout) :
          stdout[k].rendered # None =>
              /\ metar # None
              /\ stdout[k].rendered
                     = Some(Metar_colorise(metar[1], cfg,
                                           IF utc_now = None THEN [secs |-> 0, nanos |-> 0]
                                           ELSE utc_now[1]))
    /\ (pc \in {"panicked", "exited"}) => \A k \in 1..Len(stdout) : stdout[k].rendered = None

C6_Witness ==
    /\ pc = "panicked"
    /\ Len(fetches) = 2
    /\ report # None
    /\ metar = None
    /\ Len(stdout) > 0
    /\ \A k \in 1..Len(stdout) : stdout[k].rendered = None

(***************************************************************************)
(* Properties of the extractors of Metar::from_json.                       *)
(***************************************************************************)
\* the list under `key` of the report, empty when it is missing or no array
ListUnder(key) ==
    IF key \in DOMAIN report[1].v /\ report[1].v[key].t = "arr"
    THEN report[1].v[key].v
    ELSE <<>>

\* what the grammar makes of one list entry on its own
EntryDecoded(entry, wx) ==
    IF entry.t = "obj" /\ "repr" \in DOMAIN entry.v /\ entry.v["repr"].t = "str"
    THEN (IF wx THEN wxcode_from_str(entry.v["repr"].v)
          ELSE clouds_from_str(entry.v["repr"].v))
    ELSE None

\* out holds the decoded fields of exactly the entries that decode, each at
\* the rank its entry has among the entries that decode
KeepsDecodedInOrder(entries, out, wx) ==
    LET kept == {k \in 1..Len(entries) : EntryDecoded(entries[k], wx) # None}
    IN  /\ Len(out) = Cardinality(kept)
        /\ \A k \in kept :
              out[Cardinality({j \in kept : j <= k})] = EntryDecoded(entries[k], wx)[1]

\* C11: get_clouds_from_json and get_wxcodes_from_json return the decoded
\* fields of exactly those list entries whose `repr` is a string the grammar
\* matches, in the order of the list; an entry that does not decode removes
\* only itself, and a missing or empty list gives the empty sequence.
C11_TokenTolerance ==
    /\ (pc = "clouds_returned") =>
          KeepsDecodedInOrder(ListUnder("clouds"), ret[1], FALSE)
    /\ (pc = "wxcodes_returned") =>
          KeepsDecodedInOrder(ListUnder("wx_codes"), ret[1], TRUE)

\* a cloud list whose second entry does not decode, between two that do
C11_Witness ==
    /\ pc = "clouds_returned"
    /\ Len(ListUnder("clouds")) = 3
    /\ EntryDecoded(ListUnder("clouds")[1], FALSE) = Some(CloudsField("Sct", 50))
    /\ EntryDecoded(ListUnder("clouds")[2], FALSE) = None
    /\ EntryDecoded(ListUnder("clouds")[3], FALSE) = Some(CloudsField("Ovc", 200))
    /\ ret = Some(<<CloudsField("Sct", 50), CloudsField("Ovc", 200)>>)

\* the integers of a direction array all of whose entries hold an integer value
AllIntegerValues(dirs) ==
    \A k \in 1..Len(dirs) :
        /\ dirs[k].t = "obj"
        /\ "value" \in DOMAIN dirs[k].v
        /\ dirs[k].v["value"].t = "int"

\* C12: for every non-empty array of integer directions get_wind_var returns
\* the field whose low_dir is the least and whose hi_dir is the greatest of
\* the values, so low_dir <= hi_dir, and every reordering of the array gives
\* the same field.
C12_WindVarPermutation ==
    (/\ pc = "wind_var_returned"
     /\ Len(ListUnder("wind_variable_direction")) > 0
     /\ AllIntegerValues(ListUnder("wind_variable_direction"))) =>
        LET dirs == ListUnder("wind_variable_direction")
            n == Len(dirs)
            values == {dirs[k].v["value"].v : k \in 1..n}
        IN  /\ ret[1] # None
            /\ ret[1][1].tag = "WindVariability"
            /\ ret[1][1].low_dir \in values
            /\ ret[1][1].hi_dir \in values
            /\ \A v \in values : ret[1][1].low_dir <= v /\ v <= ret[1][1].hi_dir
            /\ ret[1][1].low_dir <= ret[1][1].hi_dir
            /\ \A p \in [1..n -> 1..n] :
                  (\A a, b \in 1..n : (a # b) => (p[a] # p[b])) =>
                      get_wind_var(JObj("wind_variable_direction" :>
                                        JArr([k \in 1..n |-> dirs[p[k]]]))) = ret[1]

\* the array 150, 80 of the repository's test, in descending order
C12_Witness ==
    /\ pc = "wind_var_returned"
    /\ Len(ListUnder("wind_variable_direction")) = 2
    /\ AllIntegerValues(ListUnder("wind_variable_direction"))
    /\ ListUnder("wind_variable_direction")[1].v["value"].v = 150
    /\ ListUnder("wind_variable_direction")[2].v["value"].v = 80
    /\ ret = Some(Some(WindVariabilityField(80, 150)))

\* the pressure unit the report's `units` sub-tree names: inches of mercury
\* when its `altimeter` entry spells inhg in either case, hectopascal otherwise
ReportedPressureUnit ==
    LET tree == report[1].v
        named == /\ "units" \in DOMAIN tree
                 /\ tree["units"].t = "obj"
                 /\ "altimeter" \in DOMAIN tree["units"].v
                 /\ tree["units"].v["altimeter"].t = "str"
    IN  IF named /\ EqIgnoreAsciiCase(tree["units"].v["altimeter"].v, Text.InHg)
        THEN "Inhg" ELSE "Hpa"

\* C13: get_qnh stores a fractional altimeter value (a JSON number written
\* with a decimal point) as an integer nearest to 100 times the value and an
\* integer value unchanged, and the field carries the pressure unit resolved
\* from the report's units.
C13_QnhNormalised ==
    (/\ pc = "qnh_returned"
     /\ "altimeter" \in DOMAIN report[1].v
     /\ report[1].v["altimeter"].t = "obj"
     /\ "value" \in DOMAIN report[1].v["altimeter"].v) =>
        LET value == report[1].v["altimeter"].v["value"]
        IN  /\ (value.t = "int") => (ret[1] = Some(QnhField(value.v, ReportedPressureUnit)))
            /\ (value.t = "f64") =>
                  /\ ret[1] # None
                  /\ ret[1][1].tag = "Qnh"
                  /\ ret[1][1].unit = ReportedPressureUnit
                  /\ LET twice == 2 * (100 * value.m - ret[1][1].qnh * Pow10(value.e))
                     IN  (IF twice < 0 THEN -twice ELSE twice) <= Pow10(value.e)

\* 29.92 in a report whose units name inHg
C13_Witness ==
    /\ pc = "qnh_returned"
    /\ "altimeter" \in DOMAIN report[1].v
    /\ report[1].v["altimeter"].t = "obj"
    /\ "value" \in DOMAIN report[1].v["altimeter"].v
    /\ report[1].v["altimeter"].v["value"].t = "f64"
    /\ report[1].v["altimeter"].v["value"] = JFloat(2992, 2)
    /\ ReportedPressureUnit = "Inhg"
    /\ ret = Some(Some(QnhField(2992, "Inhg")))

(***************************************************************************)
(* Properties of the match classification.                                 *)
(***************************************************************************)
\* two texts of equal length whose characters agree up to the case of an
\* ASCII letter
SameIgnoringLetterCase(a, b) ==
    /\ Len(a) = Len(b)
    /\ \A k \in 1..Len(a) :
          \/ a[k] = b[k]
          \/ \E i \in 1..26 : {a[k], b[k]} = {Upper[i], Lower[i]}

\* C14: the Metar built for a requested Airfield(code) is an exact match
\* exactly when the decoded station equals the code ignoring ASCII letter
\* case; for a GeoIP or LatLong request it is an exact match whatever the
\* decoded station is.
C14_ExactMatch ==
    (MetarDecoded /\ metar # None) =>
        (metar[1].exact_match <=>
            (cfg.position.kind = "Airfield" =>
                SameIgnoringLetterCase(metar[1].icao_code, cfg.position.icao)))

\* station edrk decoded for the requested airfield EDRK
C14_Witness ==
    /\ MetarDecoded
    /\ metar # None
    /\ cfg.position.kind = "Airfield"
    /\ cfg.position.icao = Text.EDRK
    /\ metar[1].icao_code = Text.EdrkLower
    /\ metar[1].exact_match

(***************************************************************************)
(* Properties of the wind extractor.                                       *)
(***************************************************************************)
\* whether the report holds an integer at key.value
HasIntegerValue(key) ==
    /\ key \in DOMAIN report[1].v
    /\ report[1].v[key].t = "obj"
    /\ "value" \in DOMAIN report[1].v[key].v
    /\ report[1].v[key].v["value"].t = "int"

\* C15: get_winds yields a Wind field exactly when wind_direction.value and
\* wind_speed.value are both integers; the field then holds those two
\* integers, its gust is the integer at wind_gust.value when there is one and
\* 0 when the report has no wind_gust sub-tree, so a missing gust never
\* makes the field absent.
C15_Winds ==
    (pc = "winds_returned") =>
        /\ (ret[1] # None) <=> (HasIntegerValue("wind_direction") /\ HasIntegerValue("wind_speed"))
        /\ (ret[1] # None) =>
              /\ ret[1][1].tag = "Wind"
              /\ ret[1][1].direction = report[1].v["wind_direction"].v["value"].v
              /\ ret[1][1].strength = report[1].v["wind_speed"].v["value"].v
              /\ HasIntegerValue("wind_gust") =>
                    (ret[1][1].gusts = report[1].v["wind_gust"].v["value"].v)
              /\ ("wind_gust" \notin DOMAIN report[1].v) => (ret[1][1].gusts = 0)

\* direction and speed without a wind_gust sub-tree
C15_Witness ==
    /\ pc = "winds_returned"
    /\ HasIntegerValue("wind_direction")
    /\ HasIntegerValue("wind_speed")
    /\ "wind_gust" \notin DOMAIN report[1].v
    /\ ret[1] # None
    /\ ret[1][1].direction = 100
    /\ ret[1][1].strength = 10
    /\ ret[1][1].gusts = 0

(***************************************************************************)
(* Properties of the forecast periods.                                     *)
(***************************************************************************)
\* Taf::from_json has returned a Taf
TafBuilt == pc \in {"taf_returned", "taf_coloured"} /\ taf # None

\* the entries of the `forecast` array, none when `forecast` is no array
ForecastEntries ==
    IF report[1].v["forecast"].t = "arr" THEN report[1].v["forecast"].v ELSE <<>>

\* the kind the claims give an entry: Initial at the head of the array,
\* the kind of its type for the four change types, none otherwise
ClaimedKind(entries, k) ==
    LET typed == /\ "type" \in DOMAIN entries[k].v
                 /\ entries[k].v["type"].t = "str"
        type == entries[k].v["type"].v
    IN  IF k = 1 THEN Some("Initial")
        ELSE IF ~typed THEN None
        ELSE IF type = Text.FM THEN Some("From")
        ELSE IF type = Text.BECMG THEN Some("Becoming")
        ELSE IF type = Text.TEMPO THEN Some("Temporary")
        ELSE IF type = Text.PROB THEN Some("Probability")
        ELSE None

\* C16: after Taf::from_json succeeds the first period, if there is one, has
\* kind Initial and every later period has one of the kinds From, Becoming,
\* Temporary, Probability, also when the first array entry carries a `type`
\* or when entries have unrecognised types.
C16_InitialFirstOnly ==
    TafBuilt =>
        LET periods == taf[1].forecast_periods
        IN  /\ (Len(periods) > 0) => (periods[1].period_type = "Initial")
            /\ \A k \in 2..Len(periods) :
                  periods[k].period_type \in {"From", "Becoming", "Temporary", "Probability"}
            /\ (Len(ForecastEntries) > 0) => (Len(periods) > 0)

\* an array whose first entry has type FM, followed by an entry without
\* type and a TEMPO entry
C16_Witness ==
    /\ TafBuilt
    /\ Len(ForecastEntries) = 3
    /\ "type" \in DOMAIN ForecastEntries[1].v
    /\ ForecastEntries[1].v["type"].t = "str"
    /\ ForecastEntries[1].v["type"].v = Text.FM
    /\ "type" \notin DOMAIN ForecastEntries[2].v
    /\ ClaimedKind(ForecastEntries, 3) = Some("Temporary")
    /\ Len(taf[1].forecast_periods) = 2
    /\ taf[1].forecast_periods[1].period_type = "Initial"
    /\ taf[1].forecast_periods[2].period_type = "Temporary"

\* C17: the decoded periods are the first forecast entry followed by the
\* later entries whose type is FM, BECMG, TEMPO or PROB, in the order of the
\* array, each tagged with the kind of its type, and Taf::colourise emits
\* one group per period in that same order.
C17_SourceOrder ==
    TafBuilt =>
        LET entries == ForecastEntries
            periods == taf[1].forecast_periods
            kept == {k \in 1..Len(entries) : ClaimedKind(entries, k) # None}
            rank(k) == Cardinality({j \in kept : j <= k})
        IN  /\ Len(periods) = Cardinality(kept)
            /\ \A k \in kept :
                  /\ periods[rank(k)].period_type = ClaimedKind(entries, k)[1]
                  /\ <<periods[rank(k)]>> = parse_change_group(entries[k], k = 1)
            /\ (pc = "taf_coloured") =>
                  /\ Len(ret[1].groups) = Len(periods)
                  /\ \A j \in 1..Len(periods) : ret[1].groups[j].period = periods[j]

\* the forecast of the repository's test: one initial block and one BECMG
\* block give two periods, the second Becoming, coloured in that order
C17_Witness ==
    /\ pc = "taf_coloured"
    /\ taf # None
    /\ Len(ForecastEntries) = 2
    /\ "type" \notin DOMAIN ForecastEntries[1].v
    /\ ClaimedKind(ForecastEntries, 2) = Some("Becoming")
    /\ Len(taf[1].forecast_periods) = 2
    /\ taf[1].forecast_periods[2].period_type = "Becoming"
    /\ Len(ret[1].groups) = 2
    /\ ret[1].groups[1].period.period_type = "Initial"
    /\ ret[1].groups[2].period.period_type = "Becoming"

(***************************************************************************)
(* Properties of the unit resolution.                                      *)
(***************************************************************************)
\* two texts of equal length whose characters agree up to letter case, the
\* Kelvin sign U+212A counted as a capital K
SameIgnoringCase(a, b) ==
    /\ Len(a) = Len(b)
    /\ \A k \in 1..Len(a) :
          \/ a[k] = b[k]
          \/ \E i \in 1..26 : {a[k], b[k]} \subseteq {Upper[i], Lower[i]}
          \/ {a[k], b[k]} \subseteq {"K", "k", "u212a"}

\* the unit among `names` (pairs of a spelling and a unit) that the `units`
\* sub-tree names under key, the default when the sub-tree or the key is
\* absent, the entry is no string, or no spelling agrees with it up to case
NamedUnit(key, names, default) ==
    LET tree == report[1].v
        named == /\ "units" \in DOMAIN tree
                 /\ tree["units"].t = "obj"
                 /\ key \in DOMAIN tree["units"].v
                 /\ tree["units"].v[key].t = "str"
        hits == IF named
                THEN {n \in names : SameIgnoringCase(tree["units"].v[key].v, n[1])}
                ELSE {}
    IN  IF hits = {} THEN default ELSE (CHOOSE n \in hits : TRUE)[2]

\* C18: Units::from_json returns hPa, ft, kt, C, m when the `units` sub-tree
\* is absent; for each quantity on its own it returns the default when the
\* key is absent, not a string or no recognised name, and the unit a
\* recognised name spells in either letter case (the Kelvin sign U+212A is
\* a capital K to to_lowercase).
C18_UnitResolution ==
    (pc = "units_returned") =>
        /\ ret[1].pressure
               = NamedUnit("altimeter", {<<Text.HPA, "Hpa">>, <<Text.InHg, "Inhg">>}, "Hpa")
        /\ ret[1].altitude
               = NamedUnit("altitude", {<<<<"f", "t">>, "Ft">>, <<Text.MUpper, "M">>}, "Ft")
        /\ ret[1].wind_speed
               = NamedUnit("wind_speed",
                           {<<Text.Kt, "Kt">>, <<Text.KPH, "Kph">>, <<Text.Mph, "Mph">>}, "Kt")
        /\ ret[1].temperature
               = NamedUnit("temperature", {<<<<"c">>, "C">>, <<Text.F, "F">>}, "C")
        /\ ret[1].distance
               = NamedUnit("visibility",
                           {<<Text.MUpper, "M">>, <<Text.NM, "Nm">>, <<Text.Mi, "Mi">>,
                            <<Text.Km, "Km">>}, "M")
        /\ ("units" \notin DOMAIN report[1].v) =>
               (ret[1] = [pressure |-> "Hpa", altitude |-> "Ft", wind_speed |-> "Kt",
                          temperature |-> "C", distance |-> "M"])

\* the names inHg, F, mph and mi with an unrecognised altitude name
C18_Witness ==
    /\ pc = "units_returned"
    /\ "units" \in DOMAIN report[1].v
    /\ report[1].v["units"].t = "obj"
    /\ DOMAIN report[1].v["units"].v
           = {"altimeter", "altitude", "wind_speed", "temperature", "visibility"}
    /\ \A key \in DOMAIN report[1].v["units"].v : report[1].v["units"].v[key].t = "str"
    /\ report[1].v["units"].v["altimeter"].v = Text.InHg
    /\ report[1].v["units"].v["altitude"].v = Text.Furlong
    /\ report[1].v["units"].v["wind_speed"].v = Text.Mph
    /\ report[1].v["units"].v["temperature"].v = Text.F
    /\ report[1].v["units"].v["visibility"].v = Text.Mi
    /\ ret = Some([pressure |-> "Inhg", altitude |-> "Ft", wind_speed |-> "Mph",
                   temperature |-> "F", distance |-> "Mi"])

(***************************************************************************)
(* Properties of the colours.                                              *)
(***************************************************************************)
\* C19: colourise_visibility gives green when vis >= visibility_marginal,
\* yellow when visibility_minimum < vis < visibility_marginal and red when
\* vis <= visibility_minimum.
C19_VisibilityColour ==
    (pc = "visibility_coloured") =>
        LET vis == field[1].vis
            color == ret[1][1].color
        IN  /\ (vis >= cfg.visibility_marginal) => (color = "Green")
            /\ (cfg.visibility_minimum < vis /\ vis < cfg.visibility_marginal) =>
                  (color = "Yellow")
            /\ (vis <= cfg.visibility_minimum) => (color = "Red")

\* C19, amended: green when vis >= visibility_marginal; otherwise yellow
\* when vis > visibility_minimum; otherwise red.  With the default
\* thresholds 9999 is green, 2000 yellow and 1000 red, vis equal to the
\* minimum is red and vis equal to the marginal bound is green.
C19_VisibilityColourAmended ==
    (pc = "visibility_coloured") =>
        LET vis == field[1].vis
            color == ret[1][1].color
            default == /\ cfg.visibility_minimum = 1500
                       /\ cfg.visibility_marginal = 5000
        IN  /\ Len(ret[1]) = 1
            /\ color \in {"Green", "Yellow", "Red"}
            /\ (color = "Green") <=> (vis >= cfg.visibility_marginal)
            /\ (color = "Yellow") <=>
                  (vis < cfg.visibility_marginal /\ vis > cfg.visibility_minimum)
            /\ (color = "Red") <=>
                  (vis < cfg.visibility_marginal /\ vis <= cfg.visibility_minimum)
            /\ (default /\ vis \in {5000, 9999}) => (color = "Green")
            /\ (default /\ vis = 2000) => (color = "Yellow")
            /\ (default /\ vis \in {1000, 1500}) => (color = "Red")

\* a visibility between a marginal bound and a larger minimum is green
C19_Witness ==
    /\ pc = "visibility_coloured"
    /\ cfg.visibility_marginal <= field[1].vis
    /\ field[1].vis <= cfg.visibility_minimum
    /\ ret[1][1].color = "Green"

\* red, yellow, green as 2, 1, 0
Severity(color) == IF color = "Red" THEN 2 ELSE IF color = "Yellow" THEN 1 ELSE 0

\* C20: in colourise_clouds the height is red when height <= cloud_minimum,
\* yellow when cloud_minimum < height <= cloud_marginal and green otherwise,
\* so for every coverage kind and every pair of thresholds a greater height
\* never has a more severe colour; the coverage is yellow for broken, red
\* for overcast and green otherwise, whatever the height.
C20_CloudHeightMonotonic ==
    (pc = "clouds_coloured") =>
        LET cover == field[1].cover
            height == field[1].level
            res == ret[1][1]
            altstr == ret[1][2]
        IN  /\ Len(ret[1]) = 2
            /\ altstr.color =
                  (IF height <= cfg.cloud_minimum THEN "Red"
                   ELSE IF cfg.cloud_minimum < height /\ height <= cfg.cloud_marginal
                        THEN "Yellow"
                   ELSE "Green")
            /\ res.color = (CASE cover = "Brk" -> "Yellow"
                              [] cover = "Ovc" -> "Red"
                              [] OTHER -> "Green")
            /\ \A higher \in PartChoices.alt :
                  (higher > height) =>
                      /\ Severity(colourise_clouds(cover, higher, cfg)[2].color)
                             <= Severity(altstr.color)
                      /\ colourise_clouds(cover, higher, cfg)[1] = res

\* a broken layer between the two default thresholds: both parts yellow
C20_Witness ==
    /\ pc = "clouds_coloured"
    /\ field[1].cover = "Brk"
    /\ cfg.cloud_minimum < field[1].level
    /\ field[1].level <= cfg.cloud_marginal
    /\ ret[1][1].color = "Yellow"
    /\ ret[1][2].color = "Yellow"

\* C21: colourise_temperature gives the temperature the good colour exactly
\* when temp > temp_minimum (equal is bad) and the dewpoint the good colour
\* exactly when temp - dewpoint > spread_minimum (equal is bad); the two are
\* decided independently of each other and of the unit.
C21_TemperatureColours ==
    (pc = "field_coloured" /\ field[1].tag = "Temperature") =>
        LET f == field[1]
            out == ret[1]
        IN  /\ Len(out) = 3
            /\ out[1].text = I64Display(f.temp, 0)
            /\ out[3].text = I64Display(f.dewpoint, 0)
            /\ out[1].color = IF f.temp > cfg.temp_minimum THEN "BrightGreen"
                              ELSE "BrightRed"
            /\ out[3].color = IF f.temp - f.dewpoint > cfg.spread_minimum THEN "Green"
                              ELSE "Red"
            /\ \A unit \in PartChoices.temperature_unit :
                  colourise_temperature(f.temp, f.dewpoint, unit, cfg) = out

\* a temperature equal to the minimum is bad while its dewpoint, more than
\* the spread below it, is good
C21_Witness ==
    /\ pc = "field_coloured" /\ field[1].tag = "Temperature"
    /\ field[1].temp = cfg.temp_minimum
    /\ field[1].temp - field[1].dewpoint > cfg.spread_minimum
    /\ ret[1][1].color = "BrightRed" /\ ret[1][3].color = "Green"

\* C22: colourise_wind colours the speed bad exactly when strength >
\* wind_maximum; the gust part is rendered only when gusts > 0 and is then
\* bad exactly when gusts - strength > gust_maximum; a wind with gusts = 0
\* renders no gust part.
C22_WindColours ==
    (pc = "field_coloured" /\ field[1].tag = "Wind") =>
        LET f == field[1]
            out == ret[1]
            G == {k \in 1..Len(out) : out[k].text = <<"G">>}
        IN  /\ out[1] = Coloured(I64Display(f.direction, 3), "Default")
            /\ out[2].text = I64Display(f.strength, 2)
            /\ (out[2].color = "Red") <=> (f.strength > cfg.wind_maximum)
            /\ out[2].color \in {"Red", "Green"}
            /\ out[Len(out)] = Coloured(<<"K", "T">>, "Default")
            /\ (G # {}) <=> (f.gusts > 0)
            /\ (f.gusts > 0) =>
                  /\ Len(out) = 5 /\ G = {3}
                  /\ out[4].text = I64Display(f.gusts, 2)
                  /\ out[4].color \in {"BrightRed", "Green"}
                  /\ (out[4].color = "BrightRed") <=>
                        (f.gusts - f.strength > cfg.gust_maximum)
            /\ (f.gusts <= 0) => (Len(out) = 3)

\* gusts above the bound on their own but not above the speed by more than
\* the bound are rendered in the good colour, next to a speed that is bad
C22_Witness ==
    /\ pc = "field_coloured" /\ field[1].tag = "Wind"
    /\ field[1].gusts > cfg.gust_maximum
    /\ field[1].gusts - field[1].strength <= cfg.gust_maximum
    /\ field[1].strength > cfg.wind_maximum
    /\ Len(ret[1]) = 5
    /\ ret[1][2].color = "Red" /\ ret[1][4].color = "Green"

\* the age, the two bounds and the colour of a timestamp that
\* colourize_timestamp or get_time_color has coloured
AgeColoured ==
    \/ pc = "field_coloured" /\ field[1].tag = "TimeStamp"
    \/ pc = "time_color_returned"

\* the timestamps drawn lie on 2024-06-21; 2024-06-21T00:00:00Z is
\* 1718928000 seconds after the epoch.  Ages and bounds are in milliseconds,
\* the age rounded down: no comparison with a bound of whole seconds
\* depends on what is cut off.
AgeCase ==
    LET dt == field[1].datetime
        offset == IF "offset" \in DOMAIN dt THEN dt.offset ELSE 0
        nanos == IF "nanos" \in DOMAIN dt THEN dt.nanos ELSE 0
        \* the second of the day on the UTC clock
        second_of_day == dt.hour * 3600 + dt.minute * 60 + dt.second - offset
        instant == second_of_day * 1000 + nanos \div 1000000
        clock == (utc_now[1].secs - 1718928000) * 1000 + utc_now[1].nanos \div 1000000
    IN  [age |-> clock - instant,
         utc |-> <<dt.day, second_of_day \div 3600, (second_of_day % 3600) \div 60>>,
         marginal |-> 1000 * (IF pc = "time_color_returned" THEN cfg.taf_age_marginal
                              ELSE cfg.age_marginal),
         maximum |-> 1000 * (IF pc = "time_color_returned" THEN cfg.taf_age_maximum
                             ELSE cfg.age_maximum),
         color |-> IF pc = "time_color_returned" THEN ret[1] ELSE ret[1][1].color]

\* C23: the age colour is good when age < age-marginal, marginal when
\* age-marginal <= age < age-maximum and bad when age >= age-maximum; a
\* timestamp in the future is good; colourize_timestamp and get_time_color
\* follow the same rule, each with its own pair of bounds.
C23_AgeColour ==
    AgeColoured =>
        LET c == AgeCase
        IN  /\ (c.age < c.marginal) => (c.color = "Green")
            /\ (c.marginal <= c.age /\ c.age < c.maximum) => (c.color = "Yellow")
            /\ (c.age >= c.maximum) => (c.color = "Red")
            /\ (c.age < 0) => (c.color = "Green")

\* C23, amended: good when age < age-marginal; otherwise marginal when
\* age < age-maximum; otherwise bad.  A timestamp in the future is good
\* when age-marginal is not negative.  With bounds of one hour and six
\* hours, 3599 s is good, 3600 s and 21599 s are marginal, 21600 s is bad.
\* The age is that of the instant, whatever offset the timestamp was
\* written with, fractions of a second included; colourize_timestamp
\* writes the day, hour and minute of the instant on the UTC clock.
C23_AgeColourAmended ==
    AgeColoured =>
        LET c == AgeCase
            hours == c.marginal = 3600000 /\ c.maximum = 21600000
        IN  /\ c.color \in {"Green", "Yellow", "Red"}
            /\ (c.color = "Green") <=> (c.age < c.marginal)
            /\ (c.color = "Yellow") <=> (c.age >= c.marginal /\ c.age < c.maximum)
            /\ (c.color = "Red") <=> (c.age >= c.marginal /\ c.age >= c.maximum)
            /\ (c.age < 0 /\ c.marginal >= 0) => (c.color = "Green")
            /\ (hours /\ c.age \in {-60000, 0, 3599000, 3599500, 3599700, 3599999})
                  => (c.color = "Green")
            /\ (hours /\ c.age \in {3600000, 3600200, 3601000, 21599000, 21599500, 21599999})
                  => (c.color = "Yellow")
            /\ (hours /\ c.age \in {21600000, 21600200, 21601000, 90000000})
                  => (c.color = "Red")
            /\ (pc = "field_coloured") =>
                  /\ Len(ret[1]) = 1
                  /\ ret[1][1].text = TwoDigits(c.utc) \o <<"Z">>

\* colourize_timestamp gives good to a timestamp written with half a second
\* when the clock stands 3600.7 s after its second and age_maximum, one
\* hour, lies below age_marginal: the age is 3600.2 s, not below
\* age_maximum
C23_Witness ==
    /\ pc = "field_coloured" /\ field[1].tag = "TimeStamp"
    /\ "nanos" \in DOMAIN field[1].datetime
    /\ utc_now[1].nanos = 700000000
    /\ cfg.age_maximum = 3600 /\ cfg.age_marginal = 21600
    /\ AgeCase.age = 3600200
    /\ ret[1][1].color = "Green"

\* the pieces of a rendered forecast, cut at the line breaks: Segment(out, 1)
\* is the header line, Segment(out, k) the line of the k-th period
LineBreak == Coloured(<<"\n", " ", " ", " ", " ", " ">>, "Default")

Breaks(out) == {k \in 1..Len(out) : out[k] = LineBreak}

Segment(out, n) ==
    LET before == {k \in Breaks(out) : Cardinality({j \in Breaks(out) : j <= k}) = n - 1}
        after == {k \in Breaks(out) : Cardinality({j \in Breaks(out) : j <= k}) = n}
        from == IF n = 1 THEN 1 ELSE (CHOOSE k \in before : TRUE) + 1
        to == IF after = {} THEN Len(out) ELSE (CHOOSE k \in after : TRUE) - 1
    IN  SubSeq(out, from, to)

\* an indicator token: a piece that opens with FM, BECMG, TEMPO or PROB
IsIndicator(piece) ==
    \E token \in {Text.FM, Text.BECMG, Text.TEMPO, Text.PROB} :
        IsPrefixAt(token, piece.text, 1)

\* the fields of a period, each rendered on its own, joined by single spaces
RECURSIVE SpaceJoined(_, _, _)
SpaceJoined(fields, config, now) ==
    IF Len(fields) = 0 THEN <<>>
    ELSE IF Len(fields) = 1 THEN WxField_colourise(fields[1], config, now)
    ELSE WxField_colourise(fields[1], config, now) \o <<Coloured(<<" ">>, "Default")>>
         \o SpaceJoined(Tail(fields), config, now)

\* C24: Taf::colourise renders an indicator token (FM, BECMG, TEMPO, PROB)
\* for a period only when the configuration enables change-time display and
\* the period is not the first one; the initial period never gets an
\* indicator; with the display disabled every change group is rendered as
\* its space-joined fields only, still on a line of its own that opens with
\* a line break and the indent.
C24_IndicatorGating ==
    (pc = "taf_coloured") =>
        LET out == ret[1].output
            periods == taf[1].forecast_periods
            n == Len(periods)
            first == Segment(out, 1)
        IN  /\ Cardinality(Breaks(out)) = IF n = 0 THEN 0 ELSE n - 1
            /\ \A k \in 1..Len(first) : ~IsIndicator(first[k])
            /\ (n > 0) =>
                  SubSeq(first, 5, Len(first))
                      = <<Coloured(<<" ">>, "Default")>>
                        \o SpaceJoined(periods[1].fields, cfg, utc_now[1])
            /\ \A p \in 2..n :
                  LET line == Segment(out, p)
                  IN  /\ (\E k \in 1..Len(line) : IsIndicator(line[k])) =>
                            cfg.taf_show_change_times
                      /\ \A k \in 2..Len(line) : ~IsIndicator(line[k])
                      /\ ~cfg.taf_show_change_times =>
                            (line = SpaceJoined(periods[p].fields, cfg, utc_now[1]))
                      /\ (cfg.taf_show_change_times /\ Len(line) > 0
                          /\ IsIndicator(line[1])) =>
                            (SubSeq(line, 2, Len(line))
                                = IF periods[p].fields = <<>> THEN <<>>
                                  ELSE <<Coloured(<<" ">>, "Default")>>
                                       \o SpaceJoined(periods[p].fields, cfg, utc_now[1]))

\* with the display enabled the second line opens with an indicator and the
\* first has none
C24_Witness ==
    /\ pc = "taf_coloured"
    /\ cfg.taf_show_change_times
    /\ Len(taf[1].forecast_periods) >= 2
    /\ taf[1].forecast_periods[2].fields # <<>>
    /\ IsIndicator(Segment(ret[1].output, 2)[1])
    /\ \A k \in 1..Len(Segment(ret[1].output, 1)) :
          ~IsIndicator(Segment(ret[1].output, 1)[k])

\* the integer an entry reports under probability.value, if it reports one
ReportedProbability(entry) ==
    IF /\ "probability" \in DOMAIN entry.v
       /\ entry.v["probability"].t = "obj"
       /\ "value" \in DOMAIN entry.v["probability"].v
       /\ entry.v["probability"].v["value"].t = "int"
    THEN Some(entry.v["probability"].v["value"].v)
    ELSE None

\* C25: the probability carried by a decoded period lies in 0..100 and
\* equals the probability.value its entry reports; narrowing the reported
\* integer to 8 bits never changes it.
C25_ProbabilityRange ==
    TafBuilt =>
        LET entries == ForecastEntries
            periods == taf[1].forecast_periods
            kept == {k \in 1..Len(entries) : ClaimedKind(entries, k) # None}
            rank(k) == Cardinality({j \in kept : j <= k})
        IN  \A k \in kept :
                (periods[rank(k)].probability # None) =>
                    /\ periods[rank(k)].probability[1] \in 0..100
                    /\ periods[rank(k)].probability = ReportedProbability(entries[k])

\* the fields of a sequence whose kind is one of the given kinds, in order
RECURSIVE OfKinds(_, _)
OfKinds(fields, kinds) ==
    IF Len(fields) = 0 THEN <<>>
    ELSE (IF fields[1].tag \in kinds THEN <<fields[1]>> ELSE <<>>)
         \o OfKinds(Tail(fields), kinds)

\* C26: for every change-group sub-tree the Field sequence produced by
\* parse_change_group is the sequence the report-level extraction of
\* Metar::from_json produces when applied to the same sub-tree.
C26_SameExtraction ==
    TafBuilt =>
        LET entries == ForecastEntries
            periods == taf[1].forecast_periods
            kept == {k \in 1..Len(entries) : ClaimedKind(entries, k) # None}
            rank(k) == Cardinality({j \in kept : j <= k})
        IN  \A k \in kept :
                periods[rank(k)].fields
                    = MetarFields(entries[k], Units_from_json(entries[k]))

\* C26, amended: the Field sequence of a change group is the report-level
\* extraction of its sub-tree restricted to wind, visibility, weather
\* phenomena and cloud layers, in that order; timestamp, wind variability,
\* temperature and dewpoint, altimeter and remarks are not extracted.
C26_SameExtractionAmended ==
    TafBuilt =>
        LET entries == ForecastEntries
            periods == taf[1].forecast_periods
            kept == {k \in 1..Len(entries) : ClaimedKind(entries, k) # None}
            rank(k) == Cardinality({j \in kept : j <= k})
        IN  \A k \in kept :
                /\ periods[rank(k)].fields
                       = OfKinds(MetarFields(entries[k], Units_from_json(entries[k])),
                                 {"Wind", "Visibility", "WxCode", "Clouds"})
                /\ \A i, j \in 1..Len(periods[rank(k)].fields) :
                      LET Rank(tag) == CASE tag = "Wind" -> 1 [] tag = "Visibility" -> 2
                                         [] tag = "WxCode" -> 3 [] tag = "Clouds" -> 4
                      IN  (i < j) => (Rank(periods[rank(k)].fields[i].tag)
                                        <= Rank(periods[rank(k)].fields[j].tag))

\* a change group whose sub-tree reports wind, wind variability, visibility,
\* temperature and remarks decodes to its wind and its visibility alone,
\* after a first group that names km/h as the unit of its wind speed
C26_Witness ==
    /\ TafBuilt
    /\ Len(ForecastEntries) >= 2
    /\ ClaimedKind(ForecastEntries, 2) # None
    /\ {"temperature", "remarks", "wind_variable_direction"} \subseteq DOMAIN ForecastEntries[2].v
    /\ Len(taf[1].forecast_periods) >= 2
    /\ "units" \in DOMAIN ForecastEntries[1].v
    /\ taf[1].forecast_periods[1].fields[1].unit = "Kph"
    /\ Len(taf[1].forecast_periods[2].fields) = 2
    /\ taf[1].forecast_periods[2].fields[1].tag = "Wind"
    /\ taf[1].forecast_periods[2].fields[2].tag = "Visibility"

\* the enumeration a from_str or get_regex call that has returned belongs
\* to: its variants in declaration order and the arms of its Display
EnumReturned ==
    pc \in {"Clouds::from_str.returned", "WxCode::from_str.returned",
            "WxCodeIntensity::from_str.returned", "WxCodeDescription::from_str.returned",
            "WxCodeProximity::from_str.returned", "Clouds::get_regex.returned",
            "WxCode::get_regex.returned"}

EnumCase ==
    CASE pc \in {"Clouds::from_str.returned", "Clouds::get_regex.returned"} ->
             [iter |-> CloudsIter, display |-> CloudsDisplayArms]
      [] pc \in {"WxCode::from_str.returned", "WxCode::get_regex.returned"} ->
             [iter |-> WxCodeIter, display |-> WxArms.code_display]
      [] pc = "WxCodeIntensity::from_str.returned" ->
             [iter |-> WxCodeIntensityVariants, display |-> WxArms.intensity_display]
      [] pc = "WxCodeDescription::from_str.returned" ->
             [iter |-> WxCodeDescriptionIter, display |-> WxArms.description_display]
      [] pc = "WxCodeProximity::from_str.returned" ->
             [iter |-> WxCodeProximityIter, display |-> WxArms.proximity_display]

\* the display strings of the variants, in order, joined by |
RECURSIVE JoinedByBar(_, _)
JoinedByBar(iter, display) ==
    IF Len(iter) = 0 THEN <<>>
    ELSE IF Len(iter) = 1 THEN DisplayOf(display, iter[1])
    ELSE DisplayOf(display, iter[1]) \o <<"|">> \o JoinedByBar(Tail(iter), display)

\* C27: for each enumeration and each variant v, from_str(display(v)) = v;
\* the alternation text of Clouds and WxCode is the display strings of all
\* variants in declaration order joined by |; every string outside an
\* enumeration's display set is rejected by its from_str.
C27_Lockstep ==
    EnumReturned =>
        LET e == EnumCase
            Shown == {k \in 1..Len(e.iter) : DisplayOf(e.display, e.iter[k]) = repr}
        IN  IF pc \in {"Clouds::get_regex.returned", "WxCode::get_regex.returned"}
            THEN ret = Some(JoinedByBar(e.iter, e.display))
            ELSE /\ \A k \in Shown : ret = Some(Some(e.iter[k]))
                 /\ (Shown = {}) => (ret = Some(None))

\* C27, amended: as C27, with from_str rejecting every string that is not
\* a display string in any letter case, and accepting a display string
\* written in another letter case as the variant it displays; the Kelvin
\* sign U+212A counts as a K, since to_lowercase takes it to k.
C27_LockstepAmended ==
    EnumReturned =>
        LET e == EnumCase
            Shown == {k \in 1..Len(e.iter) : DisplayOf(e.display, e.iter[k]) = repr}
            Spelled == {k \in 1..Len(e.iter) :
                           SameIgnoringCase(DisplayOf(e.display, e.iter[k]), repr)}
        IN  IF pc \in {"Clouds::get_regex.returned", "WxCode::get_regex.returned"}
            THEN ret = Some(JoinedByBar(e.iter, e.display))
            ELSE /\ \A k \in Shown : ret = Some(Some(e.iter[k]))
                 /\ \A k \in Spelled : ret = Some(Some(e.iter[k]))
                 /\ (Spelled = {}) => (ret = Some(None))
                 /\ Cardinality(Spelled) <= 1

\* Clouds::from_str accepts "sct", which is no display string of Clouds
C27_Witness ==
    /\ pc = "Clouds::from_str.returned"
    /\ repr = <<"s", "c", "t">>
    /\ \A k \in 1..Len(CloudsIter) : CloudsDisplay(CloudsIter[k]) # repr
    /\ ret = Some(Some("Sct"))

\* C28: every JSON value request_wx returns as Some was read from a
\* response with status 200, for the first fetch and for the fallback fetch
\* alike; the body of a response with another status is never handed to
\* the decoder.
C28_BodyOnlyFromOk ==
    /\ (report # None) => (resp # None /\ resp[1].status = 200)
    /\ (pc \in {"colorise", "println", "done"}) =>
          (fetches[Len(fetches)].ok /\ fetches[Len(fetches)].status = 200)

\* a report with a station, wind and visibility, and the same report with
\* the wind_variable_direction entry of the tree in hand added to it
ReportAround ==
    LET others == "station" :> JStr(Text.EDRK) @@ ReportChoices.measurements[2]
                  @@ "visibility" :> Wrap("value", JInt(9999))
    IN  [without |-> JObj(others), with |-> JObj(report[1].v @@ others)]

\* C29: get_wind_var yields a field exactly when wind_variable_direction is
\* a non-empty array in which every element has an integer `value`; for an
\* empty array, a missing key, a value that is no array, or a single element
\* without an integer value the field is absent (the other elements are not
\* used), and the rest of the report still decodes.
C29_WindVarAllOrNothing ==
    (pc = "wind_var_returned") =>
        LET dirs == ListUnder("wind_variable_direction")
            good == Len(dirs) > 0 /\ AllIntegerValues(dirs)
            decoded == Metar_from_json(ReportAround.with, cfg)
            plain == Metar_from_json(ReportAround.without, cfg)
        IN  /\ (ret[1] # None) <=> good
            /\ (ret[1] # None) => (ret[1][1].tag = "WindVariability")
            /\ decoded # None /\ plain # None
            /\ OfKinds(decoded[1].fields, {"WindVariability"}) = ret[1]
            /\ OfKinds(decoded[1].fields, {"Wind", "Visibility"}) = plain[1].fields
            /\ Len(plain[1].fields) = 2
            /\ Len(decoded[1].fields) = 2 + Len(ret[1])

\* two integer directions and one element whose value is a string: no field
C29_Witness ==
    /\ pc = "wind_var_returned"
    /\ Len(ListUnder("wind_variable_direction")) = 3
    /\ AllIntegerValues(SubSeq(ListUnder("wind_variable_direction"), 1, 2))
    /\ ~AllIntegerValues(ListUnder("wind_variable_direction"))
    /\ ret = Some(None)
    /\ Len(Metar_from_json(ReportAround.with, cfg)[1].fields) = 2

\* the tree has a station, an issue time and a validity window that decode
ValidHeader(tree) ==
    /\ HasStation(tree)
    /\ HasInstant(tree, "time")
    /\ HasInstant(tree, "start_time")
    /\ HasInstant(tree, "end_time")

\* C30: Taf::from_json returns no forecast when the `forecast` key is
\* absent, even if station, issue time and validity window are present and
\* valid; when `forecast` is present but is an empty array or no array,
\* decoding succeeds with an empty period sequence, and rendering emits the
\* header alone: TAF, station, issue time, validity window.
C30_ForecastList ==
    (pc \in {"taf_returned", "taf_coloured"}) =>
        LET tree == report[1]
            present == "forecast" \in DOMAIN tree.v
            empty == present /\ (tree.v["forecast"].t = "arr" =>
                                  tree.v["forecast"].v = <<>>)
        IN  /\ ~present => (taf = None)
            /\ (ValidHeader(tree) /\ empty) =>
                  (taf # None /\ taf[1].forecast_periods = <<>>)
            /\ (pc = "taf_coloured" /\ taf[1].forecast_periods = <<>>) =>
                  LET out == ret[1].output
                  IN  /\ Len(out) = 4
                      /\ out[1].text = <<"T", "A", "F", " ">>
                      /\ out[2].text = tree.v["station"].v
                      /\ out[3].text = <<" ">> \o SubSeq(tree.v["time"].v["dt"].v, 9, 10)
                                        \o SubSeq(tree.v["time"].v["dt"].v, 12, 13)
                                        \o SubSeq(tree.v["time"].v["dt"].v, 15, 16)
                                        \o <<"Z">>
                      /\ out[4].text = <<" ">>
                                        \o SubSeq(tree.v["start_time"].v["dt"].v, 9, 10)
                                        \o SubSeq(tree.v["start_time"].v["dt"].v, 12, 13)
                                        \o <<"/">>
                                        \o SubSeq(tree.v["end_time"].v["dt"].v, 9, 10)
                                        \o SubSeq(tree.v["end_time"].v["dt"].v, 12, 13)

\* a tree with a valid header whose `forecast` is a string: decoded with no
\* period and rendered as the four pieces of the header
C30_Witness ==
    /\ pc = "taf_coloured"
    /\ ValidHeader(report[1])
    /\ "forecast" \in DOMAIN report[1].v
    /\ report[1].v["forecast"].t = "str"
    /\ taf[1].forecast_periods = <<>>
    /\ Len(ret[1].output) = 4


====
